---- MODULE Spec2Model ----
(***************************************************************************)
(* Verification model of the generic kernel of the Treasury backend:       *)
(*   - the Unit of Work (generic/units_of_work/base.py) with the           *)
(*     bounded-events collector and processor                              *)
(*     (generic/domain/bounded_events), and the mutating operations of the *)
(*     generic repository (generic/database/repositories/sa_repositories), *)
(*     specification Spec;                                                 *)
(*   - the change-tracking, soft-delete and archive mixins of the domain   *)
(*     kernel (generic/domain/mixins), specification SpecEntity.           *)
(***************************************************************************)
EXTENDS Integers, Sequences, FiniteSets, TLC

\* ------------------------------------------------------------------ bounds
\* scope entries (async with uow) of the one Unit of Work object
MaxScopes == 2
\* events put into one collector
MaxEvents == 3
\* commit() calls inside one scope
MaxCommits == 2
\* statements executed through session.execute inside one scope
MaxStatements == 2
\* entities passed to one bulk_create call
MaxBulk == 2
\* calls of now() in the life of one entity
MaxClock == 3
\* nested attribute assignments in progress (a setter assigning another
\* property) the model follows
MaxDepth == 4
\* rows (ids) the table of the repository can hold
MaxRows == 2
\* criterion objects (factories and copies) alive at once
MaxObjects == 5
\* entries of the join plan beyond which idempotent_join is not called directly
MaxJoins == 2
\* payment items of the claim
MaxItems == 2

\* pagination: the largest count, page number and page size
MaxCount == 45

MaxPage == 4

MaxSize == 20

\* the VAT-bearing item: the largest small price and quantity, the large
\* price and quantity, the quantity main() assigns, the significant bits of
\* a float
MaxPrice == 2

MaxQuantity == 2

BigPrice == 100000001

BigQuantity == 60000003

ExampleQuantity == 88

Mantissa == 53

\* calls made on the criteria factories
MaxCalls == 3

\* distinct values passed to the criteria factories
MaxValue == 2

\* entity objects of the graph given to the audit log collector
MaxNodes == 3

\* database sessions that call create_document_sequence_if_not_exists
MaxSessions == 2

\* calls of the function, over all sessions
MaxInvocations == 3

None == "None"

VARIABLES
    \* ---- Unit of Work, collector, processor, repository ----
    pc,                  \* position of the caller: out | body | pre | txcommit | post | exit
    session,             \* BaseUnitOfWork._session (NoSession or a session id)
    repositories,        \* the *_repository attributes of the UoW: "set" | "None"
    is_outside_session,  \* BaseUnitOfWork._is_outside_session
    external,            \* the constructor was given a session
    acquired,            \* session created by the latest __aenter__ (None if none)
    open_sessions,       \* sessions that exist and have not been closed
    handlers_map,        \* BoundedEventsProcessor._handlers_map
    ctx,                 \* bounded_events_collector_ctx: 0 = None, k = collector of the k-th scope
    events,              \* BoundedEventsCollector.__events of the collector ctx refers to
    nput,                \* events put into that collector so far
    snapshot,            \* local `events` of dispatch_all_before_commit
    ei,                  \* index of the for-loop over snapshot
    hi,                  \* index of the for-loop over handlers in _dispatch_event
    cur,                 \* local `event` of dispatch_all_after_commit (NoEvent if none)
    queued0,             \* queue at the moment commit() was called
    log,                 \* steps taken by the current / latest commit() call
    exc,                 \* exception propagating inside the scope (NoExc if none)
    raised,              \* what left the scope at the latest __aexit__ (NoExc if nothing)
    scopes,              \* scopes entered so far
    commits,             \* commit() calls in this scope
    staged,              \* objects added / merged into the session, not rolled back
    executed,            \* statements executed through session.execute
    call,                \* the repository call made by the latest step (<<>> if none)
    \* ---- one entity with the change-tracking, soft-delete and archive mixins ----
    attrs,               \* the instance attributes (__dict__) of the entity
    logs,                \* LogChangedAttrsMixin._logs_changed_attrs_by_field
    stack,               \* __setattr__ calls of properties in progress: <<name, old_value>>
    pend,                \* the assignment the running setter is about to make (name None: none)
    clock,               \* calls of now() so far
    init0,               \* value of every attribute at the end of construction
    assignedDiff,        \* attributes that were assigned a value other than init0
    \* ---- the stored rows of one table and the reads of its repository ----
    table,               \* rows of the table of the repository's _model
    read,                \* the latest read of the repository: its arguments and outcome
    \* ---- criterion objects and the query they are applied to ----
    heap,                \* the criterion objects made so far, by identity: their attributes
    setup_joins,         \* Select._setup_joins of the query under construction
    qmodel,              \* the model the query selects from
    ccall,               \* the latest call on a criterion object or on the query
    \* ---- a Claim aggregate and its audit log data ----
    objs,                \* the Claim and its PaymentItems: class, vars(obj), change log
    stored_items,        \* ids of the payment items that have a row in claim_payment_items
    audit,               \* the latest collector call or upsert: events put and data
    \* ---- the HTTP application ----
    exception_handlers,  \* the handlers registered so far: <<class, handler>>, in order
    response,            \* the latest request and its response
    paged,               \* the latest make_page_size_out call: its arguments and outcome
    item,                \* the PaymentItem of practice/001: constructed, _price, _quantity, vat
    vcall,               \* the latest constructor or setter call on it: value and exception
    fheap,               \* the criteria factories and the criteria they returned, by identity
    returned,            \* the criteria returned so far: object, method called, argument
    graph,               \* the entity objects the collector is given, by identity (<<>>: not built)
    cop,                 \* the collector call in progress or finished (None: not called)
    frames,              \* the hierarchical calls in progress: the entities left in the loop of each
    processed,           \* the set processed_ids of the call
    visits,              \* the entities whose key was added to processed_ids, in order
    dropped,             \* the events whose post-commit handler raised an exception the body caught
    mapped,              \* the round trip made through ClaimMapper (<<>>: none): claim, row, claim read back
    claim_stored,        \* the claim has a row in claim_claims
    changed_event,       \* the latest EntityChangedDataEvent a repository call put for the claim
    sequences,           \* the sequences document_sequence_<code>_<year> of the schema
    sessions,            \* the database sessions: where each is in the function body
    outcomes,            \* the calls that ended, in order: value returned or error raised
    creations            \* CREATE SEQUENCE statements that succeeded, by name

uowVars == <<pc, session, repositories, is_outside_session, external, acquired, open_sessions,
             handlers_map, ctx, events, nput, snapshot, ei, hi, cur, queued0, log,
             exc, raised, scopes, commits, staged, executed, call>>

entVars == <<attrs, logs, stack, pend, clock, init0, assignedDiff>>

repoVars == <<table, read>>

\* the parts outside the Unit of Work and the entity
critVars == <<heap, setup_joins, qmodel, ccall>>

auditVars == <<objs, stored_items, audit>>

apiVars == <<exception_handlers, response>>

pageVars == <<paged>>

vatVars == <<item, vcall>>

factVars == <<fheap, returned>>

travVars == <<graph, cop, frames, processed, visits>>

catchVars == <<dropped>>

mapperVars == <<mapped>>

eventVars == <<claim_stored, changed_event>>

sequenceVars == <<sequences, sessions, outcomes, creations>>

restVars == <<repoVars, critVars, auditVars, apiVars, pageVars, vatVars, factVars, travVars, catchVars, mapperVars, eventVars, sequenceVars>>

notRepo == <<uowVars, entVars, critVars, auditVars, apiVars, pageVars, vatVars, factVars, travVars, catchVars, mapperVars, eventVars, sequenceVars>>

notCriteria == <<uowVars, entVars, repoVars, auditVars, apiVars, pageVars, vatVars, factVars, travVars, catchVars, mapperVars, eventVars, sequenceVars>>

notAudit == <<uowVars, entVars, repoVars, critVars, apiVars, pageVars, vatVars, factVars, travVars, catchVars, mapperVars, eventVars, sequenceVars>>

notApi == <<uowVars, entVars, repoVars, critVars, auditVars, pageVars, vatVars, factVars, travVars, catchVars, mapperVars, eventVars, sequenceVars>>

notApiRepo == <<uowVars, entVars, critVars, auditVars, pageVars, vatVars, factVars, travVars, catchVars, mapperVars, eventVars, sequenceVars>>

notPage == <<uowVars, entVars, repoVars, critVars, auditVars, apiVars, vatVars, factVars, travVars, catchVars, mapperVars, eventVars, sequenceVars>>

notVat == <<uowVars, entVars, repoVars, critVars, auditVars, apiVars, pageVars, factVars, travVars, catchVars, mapperVars, eventVars, sequenceVars>>

notFact == <<uowVars, entVars, repoVars, critVars, auditVars, apiVars, pageVars, vatVars, travVars, catchVars, mapperVars, eventVars, sequenceVars>>

notTrav == <<uowVars, entVars, repoVars, critVars, auditVars, apiVars, pageVars, vatVars, factVars, catchVars, mapperVars, eventVars, sequenceVars>>

notCatch == <<entVars, repoVars, critVars, auditVars, apiVars, pageVars, vatVars, factVars, travVars, mapperVars, eventVars, sequenceVars>>

notMapper == <<uowVars, entVars, repoVars, critVars, auditVars, apiVars, pageVars, vatVars, factVars, travVars, catchVars, eventVars, sequenceVars>>

notEvent == <<uowVars, entVars, repoVars, critVars, auditVars, apiVars, pageVars, vatVars, factVars, travVars, catchVars, mapperVars, sequenceVars>>

notEventAudit == <<uowVars, entVars, repoVars, critVars, apiVars, pageVars, vatVars, factVars, travVars, catchVars, mapperVars, sequenceVars>>

notSequence == <<uowVars, entVars, repoVars, critVars, auditVars, apiVars, pageVars, vatVars, factVars, travVars, catchVars, mapperVars, eventVars>>

vars == <<uowVars, entVars, restVars>>

\* ------------------------------------------------------- events, handlers
EventTypes == {"EntityChangedDataEvent", "ProjectUpdated", "Unhandled"}

\* handler types and their ON_TRANSACTION_COMMIT class attribute
ON_TRANSACTION_COMMIT ==
    [RecordInHistory |-> FALSE, NotifyResponsible |-> TRUE,
     CheckLimits |-> FALSE, PublishToBus |-> TRUE]

\* the handler map of the application (core/shared_kernel: empty) and one of
\* the shape given in the docstring of _init_bounded_events_processor
EmptyHandlersMap == [t \in {} |-> <<>>]

ExampleHandlersMap ==
    [t \in {"EntityChangedDataEvent", "ProjectUpdated"} |->
        IF t = "EntityChangedDataEvent"
        THEN <<"RecordInHistory", "NotifyResponsible", "CheckLimits">>
        ELSE <<"PublishToBus">>]

HandlersMaps == {EmptyHandlersMap, ExampleHandlersMap}

\* BoundedEventsProcessor._get_handlers
GetHandlers(event) ==
    IF event.type \in DOMAIN handlers_map THEN handlers_map[event.type] ELSE <<>>

\* mutant: _dispatch_event without the flag test
FlagMatches_Always(h, after_commit) == TRUE

\* the test `hl.ON_TRANSACTION_COMMIT is after_commit` of _dispatch_event
FlagMatches(h, after_commit) == ON_TRANSACTION_COMMIT[h] = after_commit

\* BoundedEventsCollector.put_event: append
PutEvent(q, t, n) == Append(q, [type |-> t, n |-> n])

NoEvent == [type |-> None, n |-> 0]

\* session ids: 0 stands for None, k for the session made by the k-th
\* call of session_factory(), ExternalSession for the one given to __init__
NoSession == 0
ExternalSession == 99

\* BoundedEventsCollector.get_events: a copy of the queue
GetEvents(q) == q

\* mutant: pop_event takes the newest event (pop() instead of pop(0))
PopEvent_Last(q) == [event |-> q[Len(q)], rest |-> SubSeq(q, 1, Len(q) - 1)]

\* BoundedEventsCollector.pop_event on a non-empty queue
PopEvent(q) == [event |-> Head(q), rest |-> Tail(q)]

\* ------------------------------------------------------------- exceptions
\* The message of a DBAPIError is modelled by the parts the regular
\* expressions of _transform_db_error_to_domain extract from it.
UniqueViolation == "23505"
StringDataRightTruncation == "22001"
ForeignKeyViolation == "23503"

Exception(cls, sqlstate, key, limit, detail, msg) ==
    [cls |-> cls, sqlstate |-> sqlstate, key |-> key,
     limit |-> limit, detail |-> detail, msg |-> msg]

DbapiError(sqlstate, key, limit, detail) ==
    Exception("DBAPIError", sqlstate, key, limit, detail, <<>>)

DBAPIErrors ==
    { DbapiError(UniqueViolation, "users_pkey", None, "D"),
      DbapiError(UniqueViolation, "uq_claims_system_number", None, "D"),
      DbapiError(UniqueViolation, None, None, None),
      DbapiError(StringDataRightTruncation, None, "30", None),
      DbapiError(StringDataRightTruncation, None, None, None),
      DbapiError(ForeignKeyViolation, None, None, "D"),
      DbapiError(None, None, None, None) }

OtherError(cls) == Exception(cls, None, None, None, None, <<>>)

NoExc == OtherError(None)

BodyErrors == DBAPIErrors \cup {OtherError("ValueError"), OtherError("NotFoundError")}

\* BaseUnitOfWork.unique_integrity_error_message_map of a bounded context
unique_integrity_error_message_map ==
    [k \in {"users_pkey"} |-> "profile already created"]

DomainError(msg) == Exception("DomainError", None, None, None, None, msg)

\* BaseUnitOfWork._transform_db_error_to_domain
TransformDbErrorToDomain(e) ==
    LET detail == IF e.detail # None THEN e.detail ELSE "error_msg"
    IN  IF e.sqlstate = UniqueViolation
        THEN IF e.key \in DOMAIN unique_integrity_error_message_map
             THEN DomainError(<<unique_integrity_error_message_map[e.key]>>)
             ELSE DomainError(<<"must be unique", detail, e.key>>)
        ELSE IF e.sqlstate = StringDataRightTruncation
             THEN DomainError(<<"too long", IF e.limit # None THEN e.limit ELSE "???">>)
             ELSE DomainError(<<detail>>)

\* mutant: __aexit__ translates unique violations only
Leaves_OnlyUnique(e) ==
    IF e.cls = "DBAPIError" /\ e.sqlstate = UniqueViolation
    THEN TransformDbErrorToDomain(e)
    ELSE e

\* what __aexit__ lets out of the scope for the exception it was given
Leaves(e) ==
    IF e.cls = "DBAPIError" THEN TransformDbErrorToDomain(e) ELSE e

\* the session __aexit__ leaves in _session: closed and dropped only if owned
SessionAfterExit(outside, s) == IF ~outside THEN NoSession ELSE s

OpenAfterExit(outside, s, open) == IF ~outside THEN open \ {s} ELSE open

\* ------------------------------------------------------------- repository
Repositories == {"claim_repository", "handbook_repository"}

\* SaRepository.is_read_only_repository of the two repository classes
is_read_only_repository ==
    [claim_repository |-> FALSE, handbook_repository |-> TRUE]

MutatingOps == {"create", "upsert", "bulk_create", "update"}

\* mutant: the read-only check never raises
CheckRaises_Never(r) == FALSE

\* SaRepository._check_allowed_for_read_only_repository: TRUE when it raises
CheckRaises(r) == is_read_only_repository[r]

\* --------------------------------------------------------------- commit()
LogEntry(step, e, h) == [step |-> step, ev |-> e, h |-> h]

\* mutant: commit() dispatches the post-commit pass before session.commit()
CommitNextStep_PostBeforeTx(step) ==
    CASE step = "flush" -> "pre"
      [] step = "pre" -> "post"
      [] step = "post" -> "txcommit"
      [] step = "txcommit" -> "body"

\* the order of the four awaits of BaseUnitOfWork.commit
CommitNextStep(step) ==
    CASE step = "flush" -> "pre"
      [] step = "pre" -> "txcommit"
      [] step = "txcommit" -> "post"
      [] step = "post" -> "body"

\* control enters a step of commit() (or returns to the body)
EnterStep(step) ==
    /\ pc' = step
    /\ snapshot' = IF step = "pre" THEN GetEvents(events) ELSE snapshot
    /\ ei' = 1
    /\ hi' = 1
    /\ cur' = NoEvent

\* an exception leaves commit() or the body: control goes to __aexit__
Raise(e) ==
    /\ pc' = "exit"
    /\ exc' = e

\* ------------------------------------------------------------ the entity
\* An entity class with SoftDeleteMixin, ArchivedMixin and BaseEntity
\* (LogChangedAttrsMixin), as Claim is with SoftDeleteMixin.  A datetime is a
\* number 1, 2, ...; 0 stands for None.
SystemNumbers == {"SN-1", "SN-2", "SN-3"}

Datetimes == 1..MaxClock

\* the properties of the two mixins and the instance attribute behind each
Backing ==
    [is_deleted |-> "_is_deleted", deleted_at |-> "_deleted_at",
     is_archived |-> "_is_archived", archived_at |-> "_archived_at"]

\* the property a flag setter assigns, and the flag an *_at setter assigns
Partner ==
    [is_deleted |-> "deleted_at", deleted_at |-> "is_deleted",
     is_archived |-> "archived_at", archived_at |-> "is_archived"]

FlagProperties == {"is_deleted", "is_archived"}

AtProperties == {"deleted_at", "archived_at"}

\* getattr(self, name)
Get(a, name) == IF name \in DOMAIN Backing THEN a[Backing[name]] ELSE a[name]

NoCall == [name |-> None, value |-> 0]

\* SoftDeleteMixin.__init__ / ArchivedMixin.__init__: the pair the
\* constructor stores for the arguments (flag, at); t is the value of now()
ConstructPair(flag, at, t) ==
    IF flag /\ at = 0 THEN <<flag, t>>
    ELSE IF ~flag /\ at # 0 THEN <<TRUE, at>>
    ELSE <<flag, at>>

\* the state after Entity(system_number, is_deleted, deleted_at, is_archived,
\* archived_at): LogChangedAttrsMixin.__init__ runs last, so the log is empty
InitEntity(is_deleted, deleted_at, is_archived, archived_at, system_number) ==
    LET d == ConstructPair(is_deleted, deleted_at, 1)
        a == ConstructPair(is_archived, archived_at, 1)
        made == [name \in {"system_number", "_is_deleted", "_deleted_at",
                           "_is_archived", "_archived_at"} |->
                    CASE name = "system_number" -> system_number
                      [] name = "_is_deleted" -> d[1]
                      [] name = "_deleted_at" -> d[2]
                      [] name = "_is_archived" -> a[1]
                      [] name = "_archived_at" -> a[2]]
    IN  /\ attrs = made
        /\ logs = [name \in {} |-> [old |-> 0, new |-> 0]]
        /\ stack = <<>>
        /\ pend = NoCall
        /\ clock = 1
        /\ init0 = [name \in DOMAIN made \cup DOMAIN Backing |-> Get(made, name)]
        /\ assignedDiff = {}

\* mutant: a later change overwrites old_value as well
MakeLogChangedAttrs_OverwriteOld(lg, name, old_value, new_value) ==
    IF name \in DOMAIN lg
    THEN [lg EXCEPT ![name] = [old |-> old_value, new |-> new_value]]
    ELSE IF new_value # old_value
         THEN lg @@ (name :> [old |-> old_value, new |-> new_value])
         ELSE lg

\* LogChangedAttrsMixin._make_log_changed_attrs
MakeLogChangedAttrs(lg, name, old_value, new_value) ==
    IF name \in DOMAIN lg
    THEN [lg EXCEPT ![name].new = new_value]
    ELSE IF new_value # old_value
         THEN lg @@ (name :> [old |-> old_value, new |-> new_value])
         ELSE lg

\* LogChangedAttrsMixin.__setattr__ of an instance attribute
SetAttrLogs(lg, a, name, value) == MakeLogChangedAttrs(lg, name, a[name], value)

\* mutant: the flag setter stores the flag and does not touch the timestamp
FlagSetterCall_NoCross(name, value, a, t) == NoCall

\* the tail of the is_deleted / is_archived setter, after the flag was stored
\* in a: the assignment to the partner property it makes, if any
FlagSetterCall(name, value, a, t) ==
    IF value /\ Get(a, Partner[name]) = 0
    THEN [name |-> Partner[name], value |-> t]
    ELSE IF ~value /\ Get(a, Partner[name]) # 0
         THEN [name |-> Partner[name], value |-> 0]
         ELSE NoCall

\* the tail of the deleted_at / archived_at setter, after the value was stored
AtSetterCall(name, value, a) ==
    IF value # 0 /\ ~Get(a, Partner[name])
    THEN [name |-> Partner[name], value |-> TRUE]
    ELSE IF value = 0 /\ Get(a, Partner[name])
         THEN [name |-> Partner[name], value |-> FALSE]
         ELSE NoCall

\* the setter of property `name` asks for now()
CallsNow(name, value, a) ==
    name \in FlagProperties /\ value /\ Get(a, Partner[name]) = 0

\* __setattr__(name, value) of a property starts: old_value is read, the
\* setter stores the value in the backing attribute (a logged assignment of
\* its own) and decides on the assignment to the partner property
BeginSetAttr(name, value) ==
    LET a1 == [attrs EXCEPT ![Backing[name]] = value]
        now == clock + 1
    IN  /\ CallsNow(name, value, a1) => clock < MaxClock
        /\ attrs' = a1
        /\ logs' = SetAttrLogs(logs, attrs, Backing[name], value)
        /\ stack' = Append(stack, <<name, Get(attrs, name)>>)
        /\ pend' = IF name \in FlagProperties
                   THEN FlagSetterCall(name, value, a1, now)
                   ELSE AtSetterCall(name, value, a1)
        /\ clock' = IF CallsNow(name, value, a1) THEN now ELSE clock
        /\ assignedDiff' = assignedDiff
              \cup {n \in {name, Backing[name]} : value # init0[n]}
        /\ UNCHANGED init0

\* entity.system_number = value
AssignSystemNumber(value) ==
    /\ stack = <<>>
    /\ pend.name = None
    /\ attrs' = [attrs EXCEPT !["system_number"] = value]
    /\ logs' = SetAttrLogs(logs, attrs, "system_number", value)
    /\ assignedDiff' = assignedDiff
          \cup {n \in {"system_number"} : value # init0[n]}
    /\ UNCHANGED <<stack, pend, clock, init0>>
    /\ UNCHANGED <<uowVars, restVars>>

\* entity.is_deleted = value, entity.is_archived = value
AssignFlag(name, value) ==
    /\ stack = <<>>
    /\ pend.name = None
    /\ BeginSetAttr(name, value)
    /\ UNCHANGED <<uowVars, restVars>>

\* entity.deleted_at = value, entity.archived_at = value
AssignAt(name, value) ==
    /\ stack = <<>>
    /\ pend.name = None
    /\ BeginSetAttr(name, value)
    /\ UNCHANGED <<uowVars, restVars>>

\* the running setter makes its assignment to the partner property
SetterAssigns ==
    /\ pend.name # None
    /\ Len(stack) < MaxDepth
    /\ BeginSetAttr(pend.name, pend.value)
    /\ UNCHANGED <<uowVars, restVars>>

\* the innermost setter returns and its __setattr__ logs the change
SetAttrReturns ==
    /\ pend.name = None
    /\ stack # <<>>
    /\ LET frame == stack[Len(stack)]
       IN  logs' = MakeLogChangedAttrs(logs, frame[1], frame[2], Get(attrs, frame[1]))
    /\ stack' = SubSeq(stack, 1, Len(stack) - 1)
    /\ UNCHANGED <<attrs, pend, clock, init0, assignedDiff>>
    /\ UNCHANGED <<uowVars, restVars>>

\* ==================================================== criteria and reads
\* ids of the rows the table can hold
EntityIds == {ToString(i) : i \in 1..MaxRows}

\* a row of claim_claims: SaClaim(id, system_number, is_deleted)
SaClaim(id, system_number, is_deleted) ==
    [id |-> id, system_number |-> system_number, is_deleted |-> is_deleted]

\* the system numbers of stored rows
StoredNumbers == {"SN-1", "SN-2"}

\* the storage models and the classes each one inherits from
SaModels == {"SaClaim", "SaPaymentItem"}

Bases == [m \in SaModels |-> {"SaSoftDeleteMixin", "SaCreatedUpdatedMixin", "SaBase"}]

\* ClaimRepository._model
model == "SaClaim"

\* ClaimRepository.not_found_exception
not_found_exception == "ClaimNotFoundError"

MultipleObjectsReturnedError == "MultipleObjectsReturnedError"

\* a criterion object: its class, the value its factory call stored, its
\* _is_negate flag and, for a combined criterion, its _criteria
Criterion(cls, value, criteria) ==
    [cls |-> cls, value |-> value, is_negate |-> FALSE, criteria |-> criteria]

\* criteria=None
NoCriteria == Criterion(None, None, <<>>)

\* get_criteria().by_ids(value)
by_ids(value) == Criterion("EntityByIdsCriteria", value, <<>>)

\* StrCriteria(SaClaim.system_number)(value)
by_system_number(value) == Criterion("StrCriteria", value, <<>>)

\* BoolCriteria(SaClaim.is_deleted)(value), value "True" or "False"
by_is_deleted(value) == Criterion("BoolCriteria", value, <<>>)

AndCombinedCriteria(criteria) == Criterion("AndCombinedCriteria", None, criteria)

OrCombinedCriteria(criteria) == Criterion("OrCombinedCriteria", None, criteria)

CombinedClasses == {"AndCombinedCriteria", "OrCombinedCriteria"}

\* BaseCriteria.neq(): a copy with _is_negate = True
neq(c) == [c EXCEPT !.is_negate = TRUE]

RECURSIVE get_conditions(_, _)
RECURSIVE get_result_conditions(_, _)
\* whether the conditions of get_conditions() hold together on a row (the
\* rows have no null value)
get_conditions(c, row) ==
    CASE c.cls = "EntityByIdsCriteria" -> row.id = c.value
      [] c.cls = "StrCriteria" -> row.system_number = c.value
      [] c.cls = "BoolCriteria" -> row.is_deleted = (c.value = "True")
      [] c.cls = "AndCombinedCriteria" ->
            \A i \in DOMAIN c.criteria : get_result_conditions(c.criteria[i], row)
      [] c.cls = "OrCombinedCriteria" ->
            \E i \in DOMAIN c.criteria : get_result_conditions(c.criteria[i], row)

\* get_result_conditions(): not_(and_(conditions)) when negated
get_result_conditions(c, row) ==
    IF c.is_negate THEN ~get_conditions(c, row) ELSE get_conditions(c, row)

\* criteria.filter(query): BaseCriteria.filter applies get_result_conditions,
\* the override of BaseCombinedCriteria applies op(conditions of the parts)
criteria_filter(c, rows) ==
    IF c.cls \in CombinedClasses
    THEN {r \in rows : get_conditions(c, r)}
    ELSE {r \in rows : get_result_conditions(c, r)}

\* SaRepository._is_soft_delete_model: issubclass(self._model, SoftDeleteMixin)
\* with the SoftDeleteMixin of generic.domain.mixins
is_soft_delete_model == "SoftDeleteMixin" \in Bases[model]

\* the rows _base_query(criteria=criteria, deleted=deleted) selects from rows
base_query(rows, criteria, deleted) ==
    LET query == IF is_soft_delete_model /\ deleted = "False"
                 THEN {r \in rows : r.is_deleted = FALSE}
                 ELSE IF is_soft_delete_model /\ deleted = "True"
                      THEN {r \in rows : r.is_deleted = TRUE}
                      ELSE rows
    IN  IF criteria.cls # None THEN criteria_filter(criteria, query) ELSE query

\* ClaimMapper.orm_to_entity: the Claim built from a row
orm_to_entity(orm) ==
    [id |-> orm.id, system_number |-> orm.system_number, is_deleted |-> orm.is_deleted]

\* the record of one read: arguments, returned entities, raised exception
Read(op, id, deleted, criteria, outcome, entities, exc_id) ==
    [op |-> op, id |-> id, deleted |-> deleted, criteria |-> criteria,
     outcome |-> outcome, entities |-> entities, exc_id |-> exc_id]

NoRead == Read(None, None, None, NoCriteria, None, {}, None)

\* get_by_id: scalar_one_or_none() of the rows with this id, then the
\* not-found exception (DomainError keeps str(id)) or the entity
get_by_id(rows, id, deleted) ==
    LET found == {r \in base_query(rows, NoCriteria, deleted) : r.id = id}
    IN  IF found = {}
        THEN Read("get_by_id", id, deleted, NoCriteria, not_found_exception, {}, id)
        ELSE Read("get_by_id", id, deleted, NoCriteria, "return",
                  {orm_to_entity(r) : r \in found}, None)

\* get_by_id_or_none: get_by_id with the not-found exception suppressed
get_by_id_or_none(rows, id, deleted) ==
    LET r == get_by_id(rows, id, deleted)
    IN  IF r.outcome = not_found_exception
        THEN Read("get_by_id_or_none", id, deleted, NoCriteria, "return", {}, None)
        ELSE [r EXCEPT !.op = "get_by_id_or_none"]

\* a mutation: get() returns the first of several results
GetOutcome_First(res) ==
    IF res = {} THEN <<not_found_exception, {}>>
    ELSE <<"return", {CHOOSE e \in res : TRUE}>>

\* the end of get(): what it raises or returns for the list res of filter()
GetOutcome(res) ==
    IF res = {} THEN <<not_found_exception, {}>>
    ELSE IF Cardinality(res) > 1 THEN <<MultipleObjectsReturnedError, {}>>
    ELSE <<"return", res>>

\* filter(criteria, deleted): the entities of the selected rows
filter(rows, criteria, deleted) ==
    {orm_to_entity(r) : r \in base_query(rows, criteria, deleted)}

\* the atomic criteria of the model
NumberCriteria == {by_system_number(v) : v \in StoredNumbers}

AtomicCriteria == {by_ids(v) : v \in EntityIds} \cup NumberCriteria \cup {by_is_deleted("True")}

\* combined criteria over two atomic ones
CombinedCriteria ==
    {AndCombinedCriteria(<<a, b>>) : a \in AtomicCriteria \ NumberCriteria, b \in NumberCriteria}
        \cup {OrCombinedCriteria(<<a, b>>) : a \in AtomicCriteria \ NumberCriteria,
                                             b \in NumberCriteria}

\* the criteria BaseCriteria.neq() applies to (EntityByIdsCriteria and
\* StrCriteria define a neq(value) factory of their own instead)
Negatable == {by_is_deleted("True")} \cup CombinedCriteria

\* a negated criterion nested in a combined one
NestedCriteria ==
    {AndCombinedCriteria(<<neq(c), x>>) : c \in Negatable, x \in NumberCriteria}
        \cup {OrCombinedCriteria(<<neq(c), x>>) : c \in Negatable, x \in NumberCriteria}

\* the criteria given to get(): none, atomic or combined (a list of criteria
\* becomes get_criteria().and_(list))
GetCriteria == {NoCriteria} \cup AtomicCriteria \cup CombinedCriteria

\* the criteria given to filter(): negated ones, alone or nested
FilterCriteria == {neq(c) : c \in Negatable} \cup NestedCriteria

DeletedArguments == {"False", "True", None}

InitRepo ==
    /\ table = {}
    /\ read = NoRead

\* a row is inserted (session.add and commit)
StoreRow(id, system_number) ==
    /\ \A r \in table : r.id # id
    /\ table' = table \cup {SaClaim(id, system_number, FALSE)}
    /\ read' = NoRead
    /\ UNCHANGED notRepo

\* softdelete.queries.soft_delete(SaClaim).where(SaClaim.id == id)
SoftDeleteRow(id) ==
    /\ \E r \in table : r.id = id /\ ~r.is_deleted
    /\ table' = {IF r.id = id THEN [r EXCEPT !.is_deleted = TRUE] ELSE r : r \in table}
    /\ read' = NoRead
    /\ UNCHANGED notRepo

\* softdelete.queries.undelete(SaClaim).where(SaClaim.id == id)
UndeleteRow(id) ==
    /\ \E r \in table : r.id = id /\ r.is_deleted
    /\ table' = {IF r.id = id THEN [r EXCEPT !.is_deleted = FALSE] ELSE r : r \in table}
    /\ read' = NoRead
    /\ UNCHANGED notRepo

\* repository.get_by_id(id, deleted=deleted)
GetById(id, deleted) ==
    /\ read' = get_by_id(table, id, deleted)
    /\ UNCHANGED <<table, notRepo>>

\* repository.get_by_id_or_none(id, deleted=deleted)
GetByIdOrNone(id, deleted) ==
    /\ read' = get_by_id_or_none(table, id, deleted)
    /\ UNCHANGED <<table, notRepo>>

\* repository.get(criteria, deleted=deleted)
RepoGet(criteria, deleted) ==
    /\ LET out == GetOutcome(filter(table, criteria, deleted))
       IN  read' = Read("get", None, deleted, criteria, out[1], out[2],
                        None)
    /\ UNCHANGED <<table, notRepo>>

\* repository.filter(criteria, deleted=deleted)
RepoFilter(criteria, deleted) ==
    /\ read' = Read("filter", None, deleted, criteria, "return",
                    filter(table, criteria, deleted), None)
    /\ UNCHANGED <<table, notRepo>>

\* ===================================== criteria objects and the join plan
\* the relationships of the storage models: SaClaim.payment_items and
\* SaPaymentItem.claim
Relationships ==
    {[model |-> "SaClaim", name |-> "payment_items", target |-> "SaPaymentItem",
      direction |-> "ONETOMANY"],
     [model |-> "SaPaymentItem", name |-> "claim", target |-> "SaClaim",
      direction |-> "MANYTOONE"]}

\* RelationCriteria.__init__(model, field_path) for a path relationship.column
RelationCriteria(model_, field_path) ==
    LET rel == CHOOSE r \in Relationships : r.model = model_ /\ r.name = field_path[1]
    IN  [cls |-> "RelationCriteria", model |-> model_, field_path |-> field_path,
         direction |-> rel.direction, models_to_join |-> <<rel.target>>,
         method_call |-> None, value |-> None, is_negate |-> FALSE,
         with_non_related |-> FALSE, criteria |-> <<>>]

\* the criteria factories of a criteria collection, the first objects made
CriteriaCollection ==
    << RelationCriteria("SaPaymentItem", <<"claim", "system_number">>),
       RelationCriteria("SaPaymentItem", <<"claim", "id">>),
       RelationCriteria("SaClaim", <<"payment_items", "id">>) >>

\* AndCombinedCriteria(criteria=[a, b]) over the objects a and b of the heap
CombinedObject(h, a, b) ==
    [cls |-> "AndCombinedCriteria", model |-> h[a].model, field_path |-> <<>>,
     direction |-> None, models_to_join |-> <<>>, method_call |-> None, value |-> None,
     is_negate |-> FALSE, with_non_related |-> FALSE, criteria |-> <<a, b>>]

\* an entry of Select._joins made by idempotent_join (onclause None)
SetupEntry(target, isouter, full) == [target |-> target, isouter |-> isouter, full |-> full]

\* idempotent_join(query, target, isouter=isouter, full=full)
idempotent_join(joins, target, isouter, full) ==
    IF \E i \in DOMAIN joins : joins[i] = SetupEntry(target, isouter, full)
    THEN joins
    ELSE Append(joins, SetupEntry(target, isouter, full))

RECURSIVE JoinModels(_, _, _)
\* the loop of RelationCriteria._get_join_query over _models_to_join
JoinModels(joins, models, isouter) ==
    IF models = <<>> THEN joins
    ELSE JoinModels(idempotent_join(joins, Head(models), isouter, FALSE),
                    Tail(models), isouter)

RECURSIVE get_join_query(_, _, _)
RECURSIVE JoinParts(_, _, _)
\* criterion._get_join_query(query) for the object o of the heap h
get_join_query(h, o, joins) ==
    IF h[o].cls = "RelationCriteria"
    THEN IF h[o].is_negate /\ h[o].direction = "ONETOMANY"
         THEN joins
         ELSE JoinModels(joins, h[o].models_to_join, h[o].with_non_related)
    ELSE JoinParts(h, h[o].criteria, joins)

\* the loop of BaseCombinedCriteria over the parts
JoinParts(h, parts, joins) ==
    IF parts = <<>> THEN joins
    ELSE JoinParts(h, Tail(parts), get_join_query(h, Head(parts), joins))

\* what criterion.neq() does to the object it is called on
NeqSelf(obj) ==
    IF obj.cls = "RelationCriteria" THEN [obj EXCEPT !.with_non_related = TRUE] ELSE obj

\* the latest call made on a criterion object
CriterionCall(op, on, result) == [op |-> op, on |-> on, result |-> result]

InitCriteria ==
    /\ heap = CriteriaCollection
    /\ setup_joins = <<>>
    /\ qmodel = "SaPaymentItem"
    /\ ccall = CriterionCall(None, 0, 0)

\* factory(value): RelationCriteria.__call__ stores the method and the value
\* on the factory and returns a copy
FactoryCall(f, value) ==
    /\ Len(heap) < MaxObjects
    /\ LET stored == [heap[f] EXCEPT !.method_call = "eq", !.value = value]
       IN  heap' = Append([heap EXCEPT ![f] = stored], stored)
    /\ ccall' = CriterionCall("call", f, Len(heap) + 1)
    /\ UNCHANGED <<setup_joins, qmodel, notCriteria>>

\* AndCombinedCriteria([a, b])
Combine(a, b) ==
    /\ Len(heap) < MaxObjects
    /\ heap[a].model = heap[b].model
    /\ heap' = Append(heap, CombinedObject(heap, a, b))
    /\ ccall' = CriterionCall("and", a, Len(heap) + 1)
    /\ UNCHANGED <<setup_joins, qmodel, notCriteria>>

\* o.neq(): RelationCriteria.neq sets _with_non_related on self, then
\* BaseCriteria.neq copies self and sets _is_negate on the copy
CriterionNeq(o) ==
    /\ Len(heap) < MaxObjects
    /\ heap' = Append([heap EXCEPT ![o] = NeqSelf(heap[o])],
                      [NeqSelf(heap[o]) EXCEPT !.is_negate = TRUE])
    /\ ccall' = CriterionCall("neq", o, Len(heap) + 1)
    /\ UNCHANGED <<setup_joins, qmodel, notCriteria>>

\* query = select(m)
NewQuery(m) ==
    /\ setup_joins' = <<>>
    /\ qmodel' = m
    /\ ccall' = CriterionCall("select", 0, 0)
    /\ UNCHANGED <<heap, notCriteria>>

\* criterion.filter(query): the joins the criterion adds to the query
CriterionFilter(o) ==
    /\ heap[o].model = qmodel
    /\ setup_joins' = get_join_query(heap, o, setup_joins)
    /\ ccall' = CriterionCall("filter", o, 0)
    /\ UNCHANGED <<heap, qmodel, notCriteria>>

\* idempotent_join(query, target, isouter=isouter, full=full) called directly
IdempotentJoin(target, isouter, full) ==
    /\ Len(setup_joins) < MaxJoins
    /\ target # qmodel
    /\ setup_joins' = idempotent_join(setup_joins, target, isouter, full)
    /\ ccall' = CriterionCall("join", 0, 0)
    /\ UNCHANGED <<heap, qmodel, notCriteria>>

\* ============================================== audit log of an aggregate
\* ids of the payment items; the claim has the next id
ItemIds == 1..MaxItems

ClaimId == MaxItems + 1

\* vars(obj) of a Claim and a PaymentItem after construction, and their
\* (empty) change log
NewClaim(system_number) ==
    [cls |-> "Claim",
     vars |-> [_id |-> ClaimId, system_number |-> system_number, payment_items |-> <<>>,
               _is_deleted |-> FALSE, _deleted_at |-> 0, created_at |-> 1, updated_at |-> 1,
               _logs_changed_attrs_by_field |-> 0],
     logs |-> <<>>]

NewPaymentItem(id) ==
    [cls |-> "PaymentItem",
     vars |-> [_id |-> id, created_at |-> 1, updated_at |-> 1,
               _logs_changed_attrs_by_field |-> 0],
     logs |-> <<>>]

\* datetime.strftime(DATETIME_FORMAT)
strftime(t) == "2025-10-01 15:10:0" \o ToString(t)

\* _get_entity_name: humps.decamelize(class name) + "_entity"
get_entity_name(obj) ==
    IF obj.cls = "Claim" THEN "claim_entity" ELSE "payment_item_entity"

\* _get_entity_id: str(obj.id)
get_entity_id(obj) == ToString(obj.vars._id)

\* the attributes a snapshot keeps: _should_skip_attribute drops the names
\* starting with _logs_changed_attrs
SnapshotAttrs(obj) == DOMAIN obj.vars \ {"_logs_changed_attrs_by_field"}

\* attr_name.removeprefix("_")
removeprefix(name) ==
    CASE name = "_id" -> "id"
      [] name = "_is_deleted" -> "is_deleted"
      [] name = "_deleted_at" -> "deleted_at"
      [] OTHER -> name

\* the snapshot value of an attribute: str(item.id) of the items of an
\* entity collection, AuditLogValueSerializer.serialize of anything else
serialize(name, value) ==
    CASE name = "payment_items" -> [i \in DOMAIN value |-> ToString(value[i])]
      [] name = "_id" -> ToString(value)
      [] name \in {"created_at", "updated_at"} -> strftime(value)
      [] name = "_deleted_at" -> IF value = 0 THEN None ELSE strftime(value)
      [] OTHER -> value

\* mutant: the key is the entity name whatever the dictionary holds
generate_unique_key_NameOnly(entity_name, entity_id, entities_changes) == entity_name

\* _generate_unique_key
generate_unique_key(entity_name, entity_id, entities_changes) ==
    IF entity_name \in DOMAIN entities_changes /\ entity_id # ""
    THEN entity_name \o "_" \o entity_id
    ELSE entity_name

\* _add_entity_record: entities_changes[key] = {id, type, changes}
add_entity_record(entities_changes, obj, action_type, changes) ==
    LET key == generate_unique_key(get_entity_name(obj), get_entity_id(obj), entities_changes)
    IN  [k \in DOMAIN entities_changes \cup {key} |->
            IF k = key
            THEN [id |-> get_entity_id(obj), type |-> action_type, changes |-> changes]
            ELSE entities_changes[k]]

\* the entity_key kept in processed_ids
entity_key(obj) == get_entity_name(obj) \o "_" \o get_entity_id(obj)

\* the entity_snapshot built by the attribute loop of
\* _collect_entity_snapshot_hierarchical
entity_snapshot(obj) ==
    LET names == {removeprefix(n) : n \in SnapshotAttrs(obj)}
    IN  [c \in names |->
            LET n == CHOOSE n \in SnapshotAttrs(obj) : removeprefix(n) = c
            IN  serialize(n, obj.vars[n])]

\* the entities the attribute loops find in obj: the items of its collections
nested_entities(obj) ==
    IF "payment_items" \in DOMAIN obj.vars THEN obj.vars.payment_items ELSE <<>>

RECURSIVE collect_entity_snapshot_hierarchical(_, _, _, _)
\* _collect_entity_snapshot_hierarchical for the objects refs of the heap h,
\* in order, with the processed_ids set shared by the recursion; the result
\* is <<entities_changes, processed_ids>>
collect_entity_snapshot_hierarchical(h, refs, entities_changes, processed_ids) ==
    IF refs = <<>> THEN <<entities_changes, processed_ids>>
    ELSE LET obj == h[Head(refs)]
         IN  IF entity_key(obj) \in processed_ids
             THEN collect_entity_snapshot_hierarchical(h, Tail(refs), entities_changes,
                                                       processed_ids)
             ELSE LET below == collect_entity_snapshot_hierarchical(
                                  h, nested_entities(obj),
                                  add_entity_record(entities_changes, obj, "create",
                                                    entity_snapshot(obj)),
                                  processed_ids \cup {entity_key(obj)})
                  IN  collect_entity_snapshot_hierarchical(h, Tail(refs), below[1], below[2])

\* _process_changed_fields for simple fields: {field: {old, new}}
entity_changes(obj) ==
    [f \in DOMAIN obj.logs |->
        [old |-> serialize(f, obj.logs[f].old), new |-> serialize(f, obj.logs[f].new)]]

\* mutant: a record is added for every entity visited
RecordIfChanged_Always(entities_changes, obj) ==
    add_entity_record(entities_changes, obj, "update", entity_changes(obj))

\* `if entity_changes:` of _collect_entity_changes_hierarchical
RecordIfChanged(entities_changes, obj) ==
    IF DOMAIN entity_changes(obj) # {}
    THEN add_entity_record(entities_changes, obj, "update", entity_changes(obj))
    ELSE entities_changes

RECURSIVE collect_entity_changes_hierarchical(_, _, _, _, _)
\* _collect_entity_changes_hierarchical for the objects refs in order; root is
\* TRUE for the call made with processed_ids None
collect_entity_changes_hierarchical(h, refs, entities_changes, processed_ids, root) ==
    IF refs = <<>> THEN <<entities_changes, processed_ids>>
    ELSE LET obj == h[Head(refs)]
         IN  IF ~root /\ entity_key(obj) \in processed_ids
             THEN collect_entity_changes_hierarchical(h, Tail(refs), entities_changes,
                                                      processed_ids, FALSE)
             ELSE LET below == collect_entity_changes_hierarchical(
                                  h, nested_entities(obj),
                                  RecordIfChanged(entities_changes, obj),
                                  processed_ids \cup {entity_key(obj)}, FALSE)
                  IN  collect_entity_changes_hierarchical(h, Tail(refs), below[1], below[2],
                                                          FALSE)

\* _build_audit_log_data: {"root_entity", "created_at", **entities_changes}
build_audit_log_data(obj, entities_changes, t) ==
    [k \in {"root_entity", "created_at"} \cup DOMAIN entities_changes |->
        IF k \in DOMAIN entities_changes THEN entities_changes[k]
        ELSE IF k = "root_entity" THEN get_entity_name(obj) ELSE strftime(t)]

collect_create_data(h, ref) ==
    build_audit_log_data(h[ref],
        collect_entity_snapshot_hierarchical(h, <<ref>>, <<>>, {})[1], 1)

collect_update_data(h, ref) ==
    build_audit_log_data(h[ref],
        collect_entity_changes_hierarchical(h, <<ref>>, <<>>, {}, TRUE)[1], 1)

RECURSIVE upsert_nested(_, _, _, _)
\* step 4 of upsert: the create data of every nested entity exists_map does
\* not know is merged into updated_data, key by key
upsert_nested(h, nested, exists, updated_data) ==
    IF nested = <<>> THEN updated_data
    ELSE IF Head(nested) \in exists
         THEN upsert_nested(h, Tail(nested), exists, updated_data)
         ELSE LET created_data == collect_create_data(h, Head(nested))
                  keys == DOMAIN created_data \ {"root_entity", "created_at"}
              IN  upsert_nested(h, Tail(nested), exists,
                      [k \in DOMAIN updated_data \cup keys |->
                          IF k \in keys THEN created_data[k] ELSE updated_data[k]])

\* the outcome of a collector call or of upsert: the events put and the data
Audit(op, nevents, data) == [op |-> op, events |-> nevents, data |-> data]

InitAudit ==
    /\ objs = (ClaimId :> NewClaim("SN-1"))
    /\ stored_items = {}
    /\ audit = Audit(None, 0, <<>>)

\* claim.system_number = value
AuditAssign(value) ==
    /\ objs' = [objs EXCEPT
                  ![ClaimId].vars.system_number = value,
                  ![ClaimId].logs = MakeLogChangedAttrs(@, "system_number",
                                        objs[ClaimId].vars.system_number, value)]
    /\ audit' = Audit(None, 0, <<>>)
    /\ UNCHANGED <<stored_items, notAudit>>

\* claim.payment_items.append(PaymentItem(id))
AppendPaymentItem(id) ==
    /\ id \notin DOMAIN objs
    /\ objs' = [objs EXCEPT ![ClaimId].vars.payment_items = Append(@, id)]
                  @@ (id :> NewPaymentItem(id))
    /\ audit' = Audit(None, 0, <<>>)
    /\ UNCHANGED <<stored_items, notAudit>>

\* item.updated_at = t
TouchPaymentItem(id, t) ==
    /\ id \in DOMAIN objs \ {ClaimId}
    /\ objs' = [objs EXCEPT
                  ![id].vars.updated_at = t,
                  ![id].logs = MakeLogChangedAttrs(@, "updated_at", objs[id].vars.updated_at, t)]
    /\ audit' = Audit(None, 0, <<>>)
    /\ UNCHANGED <<stored_items, notAudit>>

\* the row of a payment item is in claim_payment_items
ItemStored(id) ==
    /\ id \in DOMAIN objs \ ({ClaimId} \cup stored_items)
    /\ stored_items' = stored_items \cup {id}
    /\ audit' = Audit(None, 0, <<>>)
    /\ UNCHANGED <<objs, notAudit>>

\* AuditLogCollector().collect_update_data(claim)
CollectUpdateData ==
    /\ audit' = Audit("collect_update_data", 0, collect_update_data(objs, ClaimId))
    /\ UNCHANGED <<objs, stored_items, notAudit>>

\* AuditLogCollector().collect_create_data(claim)
CollectCreateData ==
    /\ audit' = Audit("collect_create_data", 0, collect_create_data(objs, ClaimId))
    /\ UNCHANGED <<objs, stored_items, notAudit>>

\* repository.upsert(claim): the changes of the one event it puts
AuditUpsert ==
    /\ audit' = Audit("upsert", 1,
                      upsert_nested(objs, nested_entities(objs[ClaimId]), stored_items,
                                    collect_update_data(objs, ClaimId)))
    /\ UNCHANGED <<objs, stored_items, notAudit>>

\* ============================================== the HTTP API: errors, /claim
HTTP_200_OK == 200

HTTP_400_BAD_REQUEST == 400

HTTP_403_FORBIDDEN == 403

HTTP_404_NOT_FOUND == 404

HTTP_500_INTERNAL_SERVER_ERROR == 500

HTTP_502_BAD_GATEWAY == 502

\* type(exc).__mro__ of the exception classes a request can end in, up to
\* Exception
Mro ==
    ("ClaimNotFoundError" :> <<"ClaimNotFoundError", "NotFoundError", "ABC", "DomainError",
                               "Exception">>)
    @@ ("ClaimException" :> <<"ClaimException", "EntityFieldError", "DomainError", "Exception">>)
    @@ ("PermissionAccessError" :> <<"PermissionAccessError", "DomainError", "Exception">>)
    @@ ("ExternalServiceError" :> <<"ExternalServiceError", "DomainError", "Exception">>)
    @@ ("SigningServiceError" :> <<"SigningServiceError", "ExternalServiceError", "DomainError",
                                   "Exception">>)
    @@ ("DomainError" :> <<"DomainError", "Exception">>)
    @@ ("RequestValidationError" :> <<"RequestValidationError", "ValidationException",
                                      "Exception">>)
    @@ ("ValidationError" :> <<"ValidationError", "ValueError", "Exception">>)
    @@ ("NonDomainExceptionError" :> <<"NonDomainExceptionError", "Exception">>)
    @@ ("AttributeError" :> <<"AttributeError", "Exception">>)
    @@ ("ArgumentError" :> <<"ArgumentError", "SQLAlchemyError", "Exception">>)

\* ExternalServiceError.external_code: int | str | None
ExternalCode(kind, n, s) == [kind |-> kind, int |-> n, str |-> s]

NoCode == ExternalCode(None, 0, "")

ExternalCodes ==
    {ExternalCode("int", n, "") :
        n \in {0, HTTP_200_OK, HTTP_400_BAD_REQUEST - 1, HTTP_400_BAD_REQUEST,
               HTTP_404_NOT_FOUND, HTTP_500_INTERNAL_SERVER_ERROR - 1,
               HTTP_500_INTERNAL_SERVER_ERROR, HTTP_502_BAD_GATEWAY + 1}}
    \cup {ExternalCode("str", 0, "404"), ExternalCode("str", 0, "E42"), NoCode}

\* an exception instance: its class and, for an external-service error, the code
ApiError(cls, external_code) == [cls |-> cls, external_code |-> external_code]

NoApiError == ApiError(None, NoCode)

RaisedErrors ==
    {ApiError(c, NoCode) : c \in DOMAIN Mro \ {"ExternalServiceError", "SigningServiceError"}}
    \cup {ApiError(c, x) : c \in {"ExternalServiceError", "SigningServiceError"},
                           x \in ExternalCodes}

\* register_common_exception_handlers: the add_exception_handler calls
Registrations ==
    <<<<"NotFoundError", "_handle_not_found_error">>,
      <<"EntityFieldError", "_handle_entity_field_error">>,
      <<"ExternalServiceError", "_handle_external_service_error">>,
      <<"DomainError", "_handle_domain_error">>,
      <<"PermissionAccessError", "_handle_permission_access_error">>,
      <<"RequestValidationError", "handle_validation_error">>,
      <<"ValidationError", "handle_validation_error">>,
      <<"Exception", "handle_unexpected_error">>>>

\* the classes whose handlers are registered in any order; the two validation
\* handlers follow in the order of the code
FreeOrder == {"NotFoundError", "EntityFieldError", "ExternalServiceError", "DomainError",
              "PermissionAccessError", "Exception"}

\* mutant: the first registered handler whose class the exception is an
\* instance of
lookup_handler_FirstRegistered(handlers, cls) ==
    LET hits == {i \in DOMAIN handlers :
                    \E j \in DOMAIN Mro[cls] : Mro[cls][j] = handlers[i][1]}
    IN  handlers[CHOOSE i \in hits : \A k \in hits : i <= k][2]

\* the handler a lookup finds: that of the first class of the MRO with a
\* handler (the exception_handlers dictionary, Exception last)
lookup_handler(handlers, cls) ==
    LET hits == {j \in DOMAIN Mro[cls] :
                    \E i \in DOMAIN handlers : handlers[i][1] = Mro[cls][j]}
        first == Mro[cls][CHOOSE j \in hits : \A k \in hits : j <= k]
    IN  handlers[CHOOSE i \in DOMAIN handlers : handlers[i][1] = first][2]

\* status_code of the JSONResponse each handler returns
handler_status_code(handler, e) ==
    CASE handler = "_handle_not_found_error" -> HTTP_404_NOT_FOUND
      [] handler = "_handle_entity_field_error" -> HTTP_400_BAD_REQUEST
      [] handler = "_handle_domain_error" -> HTTP_400_BAD_REQUEST
      [] handler = "_handle_permission_access_error" -> HTTP_403_FORBIDDEN
      [] handler = "_handle_external_service_error" ->
            IF e.external_code.kind = "int"
            THEN IF /\ HTTP_400_BAD_REQUEST <= e.external_code.int
                    /\ e.external_code.int < HTTP_500_INTERNAL_SERVER_ERROR
                 THEN e.external_code.int
                 ELSE IF e.external_code.int >= HTTP_500_INTERNAL_SERVER_ERROR
                      THEN HTTP_502_BAD_GATEWAY
                      ELSE HTTP_400_BAD_REQUEST
            ELSE HTTP_400_BAD_REQUEST
      [] handler = "handle_validation_error" -> HTTP_400_BAD_REQUEST
      [] OTHER -> HTTP_500_INTERNAL_SERVER_ERROR

\* ClaimDetailSchemaOut dumped by alias (camelCase)
ClaimDetailSchemaOut(id, system_number, is_deleted, payment_items) ==
    [id |-> id, systemNumber |-> system_number, isDeleted |-> is_deleted,
     paymentItems |-> payment_items]

NoDetail == ClaimDetailSchemaOut(None, None, FALSE, <<>>)

\* a request and its response: method, path id, systemNumber of the body,
\* status, the exception the request ended in, the body of a success
Response(method, claim_id, system_number, status_code, e, detail) ==
    [method |-> method, claim_id |-> claim_id, system_number |-> system_number,
     status |-> status_code, exc |-> e, detail |-> detail]

NoResponse == Response(None, None, None, 0, NoApiError, NoDetail)

\* the response to a request that ended in the exception e
error_response(handlers, method, claim_id, system_number, e) ==
    Response(method, claim_id, system_number,
             handler_status_code(lookup_handler(handlers, e.cls), e), e, NoDetail)

\* the *_repository attributes UnitOfWork._init_repositories assigns
init_repositories == {}

\* the public methods of a Claim (BaseEntity and the mixins)
ClaimMethods == {"validate", "update_attrs"}

\* the classmethods of pydantic's BaseModel that build an instance
BaseModelMethods == {"model_validate", "model_validate_json", "model_construct"}

\* the outcome of a command or query: the exception raised (None: returned),
\* the claim returned and the rows of claim_claims afterwards
Outcome(cls, claim, rows) == [raised |-> cls, claim |-> claim, rows |-> rows]

\* create.Command.execute
create_execute(rows, id, system_number) ==
    IF "claim_repository" \notin init_repositories
    THEN Outcome("AttributeError", NoDetail, rows)
    ELSE Outcome(None, ClaimDetailSchemaOut(id, system_number, FALSE, <<>>),
                 {r \in rows : r.id # id} \cup {SaClaim(id, system_number, FALSE)})

\* update.Command.execute
update_execute(rows, id, system_number) ==
    IF "claim_repository" \notin init_repositories
    THEN Outcome("AttributeError", NoDetail, rows)
    ELSE IF get_by_id(rows, id, "False").outcome # "return"
         THEN Outcome(not_found_exception, NoDetail, rows)
         ELSE IF "update" \notin ClaimMethods
              THEN Outcome("AttributeError", NoDetail, rows)
              ELSE LET claim == CHOOSE c \in get_by_id(rows, id, "False").entities : TRUE
                   IN  Outcome(None,
                          ClaimDetailSchemaOut(id, system_number, claim.is_deleted, <<>>),
                          {r \in rows : r.id # id}
                              \cup {SaClaim(id, system_number, claim.is_deleted)})

\* get.Handler.execute: select(Claim) of a class without a mapping, the
\* not-found check, ClaimDetailDTO.moel_validate
get_execute(rows, id) ==
    IF "Claim" \notin SaModels
    THEN Outcome("ArgumentError", NoDetail, rows)
    ELSE IF \A r \in rows : r.id # id
         THEN Outcome("ClaimNotFoundError", NoDetail, rows)
         ELSE IF "moel_validate" \notin BaseModelMethods
              THEN Outcome("AttributeError", NoDetail, rows)
              ELSE LET orm == CHOOSE r \in rows : r.id = id
                   IN  Outcome(None,
                          ClaimDetailSchemaOut(orm.id, orm.system_number, orm.is_deleted,
                                               <<>>), rows)

\* the part the three controllers share: the command's outcome, then
\* get.Handler(...).execute of the claim and model_validate
controller(handlers, method, path_id, system_number, command) ==
    IF command.raised # None
    THEN error_response(handlers, method, path_id, system_number,
                        ApiError(command.raised, NoCode))
    ELSE LET got == get_execute(command.rows, command.claim.id)
         IN  IF got.raised # None
             THEN error_response(handlers, method, path_id, system_number,
                                 ApiError(got.raised, NoCode))
             ELSE Response(method, path_id, system_number, HTTP_200_OK, NoApiError,
                           got.claim)

InitApi ==
    /\ exception_handlers = <<>>
    /\ response = NoResponse

\* app.add_exception_handler(cls, handler)
AddExceptionHandler(i) ==
    /\ \A k \in DOMAIN exception_handlers : exception_handlers[k] # Registrations[i]
    /\ Registrations[i][1] \notin FreeOrder =>
          /\ \A c \in FreeOrder :
                \E k \in DOMAIN exception_handlers : exception_handlers[k][1] = c
          /\ \A j \in 1..(i - 1) :
                \E k \in DOMAIN exception_handlers : exception_handlers[k] = Registrations[j]
    /\ exception_handlers' = Append(exception_handlers, Registrations[i])
    /\ UNCHANGED <<response, notApi>>

\* the application serves requests once create_app has returned
Serving == Len(exception_handlers) = Len(Registrations)

\* a request whose processing raises e
RequestRaises(e) ==
    /\ Serving
    /\ response' = error_response(exception_handlers, "ANY", None, None, e)
    /\ UNCHANGED <<exception_handlers, notApi>>

\* POST /claim {systemNumber}: create_act_controller, id being the uuid4()
ApiCreate(id, system_number) ==
    /\ Serving
    /\ \A r \in table : r.id # id
    /\ LET command == create_execute(table, id, system_number)
       IN  /\ response' = controller(exception_handlers, "POST", None, system_number, command)
           /\ table' = command.rows
    /\ UNCHANGED <<exception_handlers, read, notApiRepo>>

\* GET /claim/{claim_id}: get_act_controller
ApiGet(id) ==
    /\ Serving
    /\ response' = controller(exception_handlers, "GET", id, None,
                              Outcome(None, ClaimDetailSchemaOut(id, None, FALSE, <<>>), table))
    /\ UNCHANGED <<exception_handlers, notApi>>

\* PATCH /claim/{claim_id} {systemNumber}: update_act_controller
ApiUpdate(id, system_number) ==
    /\ Serving
    /\ LET command == update_execute(table, id, system_number)
       IN  /\ response' = controller(exception_handlers, "PATCH", id, system_number, command)
           /\ table' = command.rows
    /\ UNCHANGED <<exception_handlers, read, notApiRepo>>

\* ================================================================ pagination
\* the values of count, page and size: PageSizeIn takes any page >= 0 and
\* any integer size
Counts == 0..MaxCount

Pages == 0..MaxPage

Sizes == (0 - 1)..MaxSize

\* math.ceil(count / float(size)) for count >= 0 and size # 0
ceil(count, size) ==
    IF size > 0 THEN (count + size - 1) \div size ELSE 0 - (count \div (0 - size))

\* the outcome of make_page_size_out: the exception raised (None: returned)
\* and the fields of the PageSizeOut; 0 stands for an absent page number
PageSizeOut(count, page, size, cls, pages, next_page, previous_page) ==
    [count |-> count, page |-> page, size |-> size, raised |-> cls, pages |-> pages,
     next_page |-> next_page, previous_page |-> previous_page]

NoPage == PageSizeOut(0, 0, 0, "NoCall", 0, 0, 0)

make_page_size_out(count, page, size) ==
    LET previous_page == IF page > 1 THEN page - 1 ELSE 0
    IN  IF size = 0
        THEN PageSizeOut(count, page, size, "ZeroDivisionError", 0, 0, 0)
        ELSE LET pages == ceil(count, size)
                 next_page == IF page < pages THEN page + 1 ELSE 0
             IN  PageSizeOut(count, page, size, None, pages, next_page, previous_page)

InitPage == paged = NoPage

\* make_page_size_out(items, count, PageSizeIn(page=page, size=size)); the
\* function keeps no state, so one call per behaviour covers every call
MakePageSizeOut(count, page, size) ==
    /\ paged = NoPage
    /\ paged' = make_page_size_out(count, page, size)
    /\ UNCHANGED notPage

\* ============================= the VAT-bearing PaymentItem (practice/001)
\* PaymentItemVat
PaymentItemVat == {5, 10, 20}

\* the values assigned to price and to quantity: small integers, one
\* negative, the quantity of main() and a large value of each
PriceValues == (0 - 1)..MaxPrice \cup {BigPrice}

QuantityValues == (0 - 1)..MaxQuantity \cup {ExampleQuantity, BigQuantity}

\* ---- Python's int and float (IEEE 754 binary64) on non-negative values ----
\* An exact value is a sequence of limbs of 15 bits, lowest first; a float is
\* an exact value in units of 2^-FractionBits with at most Mantissa
\* significant bits.
Base == 2^15

FractionBits == Mantissa + 7

Limb(a, i) == IF i \in DOMAIN a THEN a[i] ELSE 0

RECURSIVE Limbs(_)
\* the limbs of a non-negative integer
Limbs(n) == IF n = 0 THEN <<>> ELSE <<n % Base>> \o Limbs(n \div Base)

RECURSIVE MulLimb(_, _, _)
\* a * k for an exact value a and 0 <= k < Base
MulLimb(a, k, carry) ==
    IF a = <<>> THEN Limbs(carry)
    ELSE <<(Head(a) * k + carry) % Base>>
            \o MulLimb(Tail(a), k, (Head(a) * k + carry) \div Base)

ExactAdd(a, b) ==
    LET n == (IF Len(a) > Len(b) THEN Len(a) ELSE Len(b)) + 1
        c[i \in 0..n] == IF i = 0 THEN 0 ELSE (Limb(a, i) + Limb(b, i) + c[i - 1]) \div Base
    IN  [i \in 1..n |-> (Limb(a, i) + Limb(b, i) + c[i - 1]) % Base]

\* a - b for a >= b
ExactSub(a, b) ==
    LET n == Len(a)
        c[i \in 0..n] == IF i = 0 THEN 0
                         ELSE IF Limb(a, i) - Limb(b, i) - c[i - 1] < 0 THEN 1 ELSE 0
    IN  [i \in 1..n |-> (Limb(a, i) - Limb(b, i) - c[i - 1] + Base) % Base]

ExactEq(a, b) == \A i \in DOMAIN a \cup DOMAIN b : Limb(a, i) = Limb(b, i)

ExactLess(a, b) ==
    LET differ == {i \in DOMAIN a \cup DOMAIN b : Limb(a, i) # Limb(b, i)}
    IN  /\ differ # {}
        /\ LET top == CHOOSE i \in differ : \A j \in differ : j <= i
           IN  Limb(a, top) < Limb(b, top)

\* int * int for an exact value a and an integer 0 <= k < Base * Base
Mul(a, k) == ExactAdd(MulLimb(a, k % Base, 0), <<0>> \o MulLimb(a, k \div Base, 0))

\* floor(a / k) for 0 < k < Base, and whether a remainder is left
DivSmall(a, k) ==
    LET n == Len(a)
        rem[i \in 1..(n + 1)] == IF i = n + 1 THEN 0 ELSE (Base * rem[i + 1] + a[i]) % k
    IN  [quotient |-> [i \in 1..n |-> (Base * rem[i + 1] + a[i]) \div k],
         inexact |-> n > 0 /\ rem[1] # 0]

\* a * 2^n and floor(a / 2^n)
ShiftLeft(a, n) == MulLimb([i \in 1..(n \div 15) |-> 0] \o a, 2^(n % 15), 0)

ShiftRight(a, n) == DivSmall(SubSeq(a, n \div 15 + 1, Len(a)), 2^(n % 15)).quotient

\* the number of bits of a (0 for zero)
BitLength(a) ==
    LET set == {i \in DOMAIN a : a[i] # 0}
    IN  IF set = {} THEN 0
        ELSE LET top == CHOOSE i \in set : \A j \in set : j <= i
             IN  15 * (top - 1) + CHOOSE n \in 1..15 : 2^(n - 1) <= a[top] /\ a[top] < 2^n

\* the exact value of an integer in units of 2^-FractionBits
Scaled(a) == ShiftLeft(a, FractionBits)

\* rounding to the nearest float, ties to even; inexact: the exact value is
\* above a by less than one unit
Round(a, inexact) ==
    LET cut == BitLength(a) - Mantissa
    IN  IF cut <= 0 THEN a
        ELSE LET mantissa == ShiftRight(a, cut)
                 kept == ShiftLeft(mantissa, cut)
                 rest == ExactSub(a, kept)
                 half == ShiftLeft(<<1>>, cut - 1)
             IN  IF \/ ExactLess(half, rest)
                    \/ ExactEq(half, rest) /\ (inexact \/ Limb(mantissa, 1) % 2 = 1)
                 THEN ShiftLeft(ExactAdd(mantissa, <<1>>), cut)
                 ELSE kept

\* float(n) of an int
float(a) == Round(Scaled(a), FALSE)

\* int / int: the correctly rounded quotient
truediv(a, k) == Round(DivSmall(Scaled(a), k).quotient, DivSmall(Scaled(a), k).inexact)

\* float + float and float - float (x >= y)
float_add(x, y) == Round(ExactAdd(x, y), FALSE)

float_sub(x, y) == Round(ExactSub(x, y), FALSE)

\* ---- the item ----
\* a PaymentItem: whether __init__ returned, _price, _quantity and vat
VatItem(constructed, price, quantity, vat) ==
    [constructed |-> constructed, _price |-> price, _quantity |-> quantity, vat |-> vat]

\* the latest call: the attribute assigned ("__init__": the constructor),
\* the value and the exception raised
VatCall(op, value, cls) == [op |-> op, value |-> value, raised |-> cls]

\* mutant: the setter stores whatever it is given
setter_NoCheck(value) == None

\* the check of the price and quantity setters
setter(value) == IF value < 0 THEN "ValueError" ELSE None

\* total_sum = self.price * self.quantity
total_sum(it) == Mul(Limbs(it._price), it._quantity)

\* sum_vat = (self.total_sum * self.vat.value) / (100 + self.vat.value)
sum_vat(it) == truediv(Mul(total_sum(it), it.vat), 100 + it.vat)

\* sum_without_vat = self.total_sum - self.sum_vat
sum_without_vat(it) == float_sub(float(total_sum(it)), sum_vat(it))

InitVat ==
    /\ item = VatItem(FALSE, 0, 0, 0)
    /\ vcall = VatCall(None, 0, None)

\* PaymentItem(id, [], price, quantity, vat): price is assigned first
VatConstruct(price, quantity, vat) ==
    /\ ~item.constructed
    /\ item' = IF setter(price) = None /\ setter(quantity) = None
               THEN VatItem(TRUE, price, quantity, vat)
               ELSE item
    /\ vcall' = IF setter(price) # None THEN VatCall("__init__", price, setter(price))
                ELSE VatCall("__init__", quantity, setter(quantity))
    /\ UNCHANGED notVat

\* item.price = value
VatSetPrice(value) ==
    /\ item.constructed
    /\ item' = IF setter(value) = None THEN [item EXCEPT !._price = value] ELSE item
    /\ vcall' = VatCall("price", value, setter(value))
    /\ UNCHANGED notVat

\* item.quantity = value
VatSetQuantity(value) ==
    /\ item.constructed
    /\ item' = IF setter(value) = None THEN [item EXCEPT !._quantity = value] ELSE item
    /\ vcall' = VatCall("quantity", value, setter(value))
    /\ UNCHANGED notVat

\* ================ the criteria factories and the criteria they return
\* the factory classes of base_criteria.py that have comparison methods
FactoryClasses == <<"DatetimeCriteria", "NumberCriteria", "StrCriteria", "RelationCriteria">>

\* an attribute that was never assigned on the instance
Unset == "unset"

\* the values passed to the factory methods
FactoryValues == {"v" \o ToString(n) : n \in 1..MaxValue}

\* the instance attributes of a factory or of a criterion
FactoryObject(cls, method, method_call, value, is_negate, with_non_related) ==
    [cls |-> cls, method |-> method, method_call |-> method_call, value |-> value,
     is_negate |-> is_negate, with_non_related |-> with_non_related]

\* __init__ of each class: DatetimeCriteria assigns _method and _value,
\* RelationCriteria _value and _with_non_related, the other two neither
NewFactory(cls) ==
    CASE cls = "DatetimeCriteria" -> FactoryObject(cls, None, Unset, None, FALSE, FALSE)
      [] cls = "RelationCriteria" -> FactoryObject(cls, Unset, Unset, None, FALSE, FALSE)
      [] OTHER -> FactoryObject(cls, Unset, Unset, Unset, FALSE, FALSE)

\* the comparison methods gte, gt, lte, lt
Comparisons == {"gte", "gt", "lte", "lt"}

\* the methods of each class that return a criterion
FactoryMethods(cls) ==
    CASE cls = "DatetimeCriteria" -> {"__call__", "neq"} \cup Comparisons
      [] cls = "NumberCriteria" -> {"__call__", "neq"} \cup Comparisons
      [] cls = "StrCriteria" -> {"__call__", "ieq", "neq", "ilike", "like"}
      [] cls = "RelationCriteria" ->
             {"__call__", "ieq", "ilike", "like", "isnull", "neq"} \cup Comparisons

\* the arguments a method is called with
FactoryArguments(cls, name) ==
    IF name = "neq" /\ cls # "StrCriteria" THEN {None}
    ELSE IF name = "isnull" THEN {"True", "False"}
    ELSE FactoryValues

\* DatetimeCriteria: __call__ assigns _value only
datetime_method(o, name, value) ==
    IF name = "__call__" THEN [o EXCEPT !.value = value]
    ELSE IF name \in Comparisons THEN [o EXCEPT !.method = "_" \o name, !.value = value]
    ELSE o

\* NumberCriteria
number_method(o, name, value) ==
    IF name = "__call__" THEN [o EXCEPT !.method = "_equals", !.value = value]
    ELSE IF name \in Comparisons THEN [o EXCEPT !.method = "_" \o name, !.value = value]
    ELSE o

\* StrCriteria
str_method(o, name, value) ==
    [o EXCEPT !.method_call = IF name = "__call__" THEN "eq" ELSE name, !.value = value]

\* RelationCriteria
relation_method(o, name, value) ==
    IF name = "__call__"
    THEN [o EXCEPT !.method_call = "eq", !.method = "_equals", !.value = value]
    ELSE IF name \in {"ieq", "ilike", "like"}
    THEN [o EXCEPT !.method_call = name, !.value = value]
    ELSE IF name \in Comparisons
    THEN [o EXCEPT !.method_call = name, !.method = "_" \o name, !.value = value]
    ELSE IF name = "isnull"
    THEN [o EXCEPT !.method_call = name,
                   !.method = IF value = "True" THEN "_equals" ELSE "_not_equals",
                   !.value = None]
    ELSE [o EXCEPT !.with_non_related = TRUE]

\* the factory after the assignments of method name
factory_method(o, name, value) ==
    CASE o.cls = "DatetimeCriteria" -> datetime_method(o, name, value)
      [] o.cls = "NumberCriteria" -> number_method(o, name, value)
      [] o.cls = "StrCriteria" -> str_method(o, name, value)
      [] o.cls = "RelationCriteria" -> relation_method(o, name, value)

\* the object a method returns: _get_copy() of the factory after the
\* assignments; BaseCriteria.neq sets _is_negate on the copy
get_copy(o, name) ==
    IF name = "neq" /\ o.cls # "StrCriteria" THEN [o EXCEPT !.is_negate = TRUE] ELSE o

\* the comparison a function _equals, _gt, ... makes
Operator(method) ==
    CASE method = "_equals" -> "=="
      [] method = "_not_equals" -> "!="
      [] method = "_gte" -> ">="
      [] method = "_gt" -> ">"
      [] method = "_lte" -> "<="
      [] method = "_lt" -> "<"
      [] OTHER -> "AttributeError"

\* a condition on the column of the criterion
Condition(op, value, negated) == [op |-> op, value |-> value, negated |-> negated]

\* get_result_conditions over get_conditions of each class
factory_conditions(o) ==
    LET op == CASE o.cls = "DatetimeCriteria" ->
                       IF o.method # None THEN Operator(o.method) ELSE "=="
                 [] o.cls = "NumberCriteria" -> Operator(o.method)
                 [] o.cls = "StrCriteria" ->
                       IF o.method_call = Unset THEN "AttributeError"
                       ELSE IF o.method_call = "neq" THEN "!="
                       ELSE IF o.method_call = "eq" THEN "=="
                       ELSE o.method_call
                 [] o.cls = "RelationCriteria" ->
                       IF o.method_call = Unset THEN "AttributeError"
                       ELSE IF o.method_call \in {"ieq", "ilike", "like"} THEN o.method_call
                       ELSE Operator(o.method)
    IN  Condition(op, o.value, o.is_negate)

\* a criterion handed to the caller: the object, the call that returned it
Returned(ref, called, arg) == [ref |-> ref, called |-> called, arg |-> arg]

InitFactory ==
    /\ fheap = [i \in 1..Len(FactoryClasses) |-> NewFactory(FactoryClasses[i])]
    /\ returned = <<>>

\* factory.name(value), factory(value) for name "__call__"
FactoryMethodCall(f, name, value) ==
    /\ Len(returned) < MaxCalls
    /\ fheap' = Append([fheap EXCEPT ![f] = factory_method(fheap[f], name, value)],
                       get_copy(factory_method(fheap[f], name, value), name))
    /\ returned' = Append(returned, Returned(Len(fheap) + 1, name, value))
    /\ UNCHANGED notFact

\* ====== the traversal of an entity graph by the audit log collector
\* an entity object: its class, its id, one attribute holding an entity
\* (0: None) and one holding a list of entities; the objects are named by
\* their position in the graph
GraphNode(cls, id, ref, items) ==
    [cls |-> cls, vars |-> [_id |-> id, ref |-> ref, items |-> items]]

\* the lists of entities an attribute may hold
NodeLists == {<<>>} \cup {<<n>> : n \in 1..MaxNodes}

\* the entity graphs: the root is a Claim, the others are PaymentItems; the
\* last object has an id of its own or the id of the object before it; any
\* object may refer to any object, itself and the root included
Graphs ==
    {[n \in 1..MaxNodes |->
         GraphNode(IF n = 1 THEN "Claim" ELSE "PaymentItem",
                   IF n = MaxNodes THEN last ELSE n, refs[n], lists[n])] :
        last \in {MaxNodes - 1, MaxNodes},
        refs \in [1..MaxNodes -> 0..MaxNodes],
        lists \in [1..MaxNodes -> NodeLists]}

\* the three collector calls and the action type each passes on
CollectOperations == {"create", "update", "delete"}

\* mutant: every entity met is processed
should_process_entity_Always(obj, processed_keys, first) == TRUE

\* _should_process_entity, and the processed_ids test of
\* _collect_entity_snapshot_hierarchical; processed_ids is None (first is
\* TRUE) in the root call of the update traversal
should_process_entity(obj, processed_keys, first) ==
    first \/ entity_key(obj) \notin processed_keys

\* NestedEntitiesCollector.add_entity over a list: one entry per object
RECURSIVE add_entities(_, _)
add_entities(entities, more) ==
    IF more = <<>> THEN entities
    ELSE add_entities(IF \E i \in DOMAIN entities : entities[i] = Head(more)
                      THEN entities ELSE Append(entities, Head(more)),
                      Tail(more))

\* the nested entities of obj in the order vars(obj) gives them: the list
\* nested_entities of the snapshot traversal, nested_collector.entities of
\* the update traversal
graph_nested_entities(op, obj) ==
    LET found == (IF obj.vars.ref = 0 THEN <<>> ELSE <<obj.vars.ref>>) \o obj.vars.items
    IN  IF op = "update" THEN add_entities(<<>>, found) ELSE found

InitTraversal ==
    /\ graph = <<>>
    /\ cop = None
    /\ frames = <<>>
    /\ processed = {}
    /\ visits = <<>>

\* the entities are constructed and linked
BuildGraph ==
    /\ graph = <<>>
    /\ graph' \in Graphs
    /\ UNCHANGED <<cop, frames, processed, visits, notTrav>>

\* collect_create_data(obj), collect_update_data(obj), collect_delete_data(obj)
\* for the root: _build_audit_log_data makes the first hierarchical call
CollectData(op) ==
    /\ graph # <<>>
    /\ cop = None
    /\ cop' = op
    /\ frames' = << <<1>> >>
    /\ processed' = {}
    /\ visits' = <<>>
    /\ UNCHANGED <<graph, notTrav>>

\* the hierarchical call for the next entity of the innermost loop returns
\* at once: the entity key is in processed_ids
CollectSkip ==
    /\ frames # <<>>
    /\ frames[Len(frames)] # <<>>
    /\ ~should_process_entity(graph[Head(frames[Len(frames)])], processed, visits = <<>>)
    /\ frames' = [frames EXCEPT ![Len(frames)] = Tail(@)]
    /\ UNCHANGED <<graph, cop, processed, visits, notTrav>>

\* the hierarchical call for the next entity of the innermost loop: the key
\* is added to processed_ids, the entity is recorded, and the loop over its
\* nested entities begins
CollectProcess ==
    /\ frames # <<>>
    /\ frames[Len(frames)] # <<>>
    /\ LET n == Head(frames[Len(frames)])
       IN  /\ should_process_entity(graph[n], processed, visits = <<>>)
           /\ processed' = processed \cup {entity_key(graph[n])}
           /\ visits' = Append(visits, n)
           /\ frames' = Append([frames EXCEPT ![Len(frames)] = Tail(@)],
                               graph_nested_entities(cop, graph[n]))
    /\ UNCHANGED <<graph, cop, notTrav>>

\* the innermost loop is over: the hierarchical call returns
CollectReturn ==
    /\ frames # <<>>
    /\ frames[Len(frames)] = <<>>
    /\ frames' = SubSeq(frames, 1, Len(frames) - 1)
    /\ UNCHANGED <<graph, cop, processed, visits, notTrav>>

\* ================ a body that catches the exception of a failed commit()
\* the exception propagating in the scope came out of a post-commit handler
\* of the latest commit() call
PostRaised ==
    /\ Len(log) >= 2
    /\ log[Len(log)].step = "raise"
    /\ log[Len(log) - 1].step = "post"

\* the event a post-commit handler was handling when it raised: the event,
\* the scope and the commit() call
Dropped(e, scope, commit) == [ev |-> e, scope |-> scope, commit |-> commit]

InitCatch == dropped = {}

\* the body catches the exception (try / except around the statement that
\* raised, commit() included) and goes on inside the scope
BodyCatch ==
    /\ pc = "exit"
    /\ exc # NoExc
    /\ pc' = "body"
    /\ exc' = NoExc
    /\ call' = <<>>
    /\ dropped' = IF PostRaised
                  THEN dropped \cup {Dropped(log[Len(log) - 1].ev, scopes, commits)}
                  ELSE dropped
    /\ UNCHANGED <<session, repositories, is_outside_session, external, acquired,
                   open_sessions, handlers_map, ctx, events, nput, snapshot, ei, hi, cur,
                   queued0, log, raised, scopes, commits, staged, executed>>
    /\ UNCHANGED notCatch

\* ======================= ClaimMapper: entity to row and row to entity
\* datetimes are 1, 2, ...; 0 stands for None
MapDatetimes == 1..MaxClock

\* PaymentItem.__init__ with CreatedUpdatedMixin.__init__: `created_at or
\* now()`; t is the value of now()
PaymentItemEntity(id, created_at, updated_at, t) ==
    [id |-> id,
     created_at |-> IF created_at = 0 THEN t ELSE created_at,
     updated_at |-> IF updated_at = 0 THEN t ELSE updated_at]

\* Claim.__init__ with SoftDeleteMixin.__init__ and
\* CreatedUpdatedMixin.__init__
ClaimEntity(id, system_number, payment_items, created_at, updated_at, is_deleted, deleted_at, t) ==
    [id |-> id,
     system_number |-> system_number,
     payment_items |-> payment_items,
     created_at |-> IF created_at = 0 THEN t ELSE created_at,
     updated_at |-> IF updated_at = 0 THEN t ELSE updated_at,
     is_deleted |-> is_deleted \/ deleted_at # 0,
     deleted_at |-> IF is_deleted /\ deleted_at = 0 THEN t ELSE deleted_at]

\* SaPaymentItem(id=..., created_at=..., updated_at=...)
SaPaymentItem(id, created_at, updated_at) ==
    [id |-> id, created_at |-> created_at, updated_at |-> updated_at]

\* SaClaim(id=..., system_number=..., payment_items=..., ...)
SaClaimRow(id, system_number, payment_items, created_at, updated_at, is_deleted, deleted_at) ==
    [id |-> id, system_number |-> system_number, payment_items |-> payment_items,
     created_at |-> created_at, updated_at |-> updated_at,
     is_deleted |-> is_deleted, deleted_at |-> deleted_at]

\* ClaimMapper.entity_to_orm: every payment item row is given id=obj.id
entity_to_orm(obj) ==
    SaClaimRow(obj.id, obj.system_number,
               [i \in DOMAIN obj.payment_items |->
                   SaPaymentItem(obj.id, obj.payment_items[i].created_at,
                                 obj.payment_items[i].updated_at)],
               obj.created_at, obj.updated_at, obj.is_deleted, obj.deleted_at)

\* ClaimMapper.orm_to_entity with the payment items of the row
claim_orm_to_entity(orm, t) ==
    ClaimEntity(orm.id, orm.system_number,
                [i \in DOMAIN orm.payment_items |->
                    PaymentItemEntity(orm.payment_items[i].id,
                                      orm.payment_items[i].created_at,
                                      orm.payment_items[i].updated_at, t)],
                orm.created_at, orm.updated_at, orm.is_deleted, orm.deleted_at, t)

\* the lists of payment items a claim may hold: different ids, any order
PaymentItemLists ==
    {items \in UNION {[1..k -> [id : ItemIds, created_at : 1..2, updated_at : 1..2]] :
                         k \in 0..MaxItems} :
        \A i, j \in DOMAIN items : items[i].id = items[j].id => i = j}

\* the claims given to the mapper: constructed by Claim.__init__
MapClaims ==
    {ClaimEntity(ClaimId, sn, items, created, created, deleted_at # 0, deleted_at, created) :
        sn \in {"SN-1", "SN-2"}, items \in PaymentItemLists, created \in 1..2,
        deleted_at \in 0..1}

\* one round trip: the claim, its row, the claim read back
RoundTrip(obj, orm, back) == [obj |-> obj, orm |-> orm, back |-> back]

InitMapper == mapped = <<>>

\* orm_to_entity(entity_to_orm(obj)), the second call at time t
MapRoundTrip(obj, t) ==
    /\ mapped = <<>>
    /\ mapped' = <<RoundTrip(obj, entity_to_orm(obj),
                            claim_orm_to_entity(entity_to_orm(obj), t))>>
    /\ UNCHANGED notMapper

\* ============ the EntityChangedDataEvent a repository call puts for a claim
\* EntityChangedDataEvent(entity_id, entity_type, changes) and the call that
\* put it; fresh: the claim had no row when the call was made
ChangedDataEvent(op, entity_id, entity_type, changes, fresh) ==
    [op |-> op, entity_id |-> entity_id, entity_type |-> entity_type,
     changes |-> changes, fresh |-> fresh]

\* _get_data_for_audit_log_when_create
get_data_for_audit_log_when_create(h, ref) == collect_create_data(h, ref)

\* _get_data_for_audit_log_when_update
get_data_for_audit_log_when_update(h, ref) == collect_update_data(h, ref)

InitEvent ==
    /\ claim_stored = FALSE
    /\ changed_event = ChangedDataEvent(None, 0, None, <<>>, FALSE)

\* repository.create(claim)
EventCreate ==
    /\ ~claim_stored
    /\ changed_event' = ChangedDataEvent("create", objs[ClaimId].vars._id, "claim_claims",
                            get_data_for_audit_log_when_create(objs, ClaimId), ~claim_stored)
    /\ UNCHANGED <<claim_stored, notEvent>>

\* repository.bulk_create([claim]): the event of the one entity
EventBulkCreate ==
    /\ ~claim_stored
    /\ changed_event' = ChangedDataEvent("bulk_create", objs[ClaimId].vars._id, "claim_claims",
                            get_data_for_audit_log_when_create(objs, ClaimId), ~claim_stored)
    /\ UNCHANGED <<claim_stored, notEvent>>

\* repository.upsert(claim), of a new claim (the Create command) or of a
\* stored one
EventUpsert ==
    /\ changed_event' = ChangedDataEvent("upsert", objs[ClaimId].vars._id, "claim_claims",
                            upsert_nested(objs, nested_entities(objs[ClaimId]), stored_items,
                                          get_data_for_audit_log_when_update(objs, ClaimId)),
                            ~claim_stored)
    /\ UNCHANGED <<claim_stored, notEvent>>

\* the session is committed after a call that staged the claim: its row and
\* the rows of its payment items exist
EventCommit ==
    /\ changed_event.op # None
    /\ ~claim_stored
    /\ claim_stored' = TRUE
    /\ stored_items' = DOMAIN objs \ {ClaimId}
    /\ UNCHANGED <<changed_event, objs, audit, notEventAudit>>

\* ====== create_document_sequence_if_not_exists called by database sessions
\* the sessions calling the function, each call in a transaction of its own
Sessions == 1..MaxSessions

\* the document type codes and years of the calls
DocTypeCodes == {"01", "02"}

DocYears == {2025}

\* seq_name := 'document_sequence_' || doc_type_code || '_' || doc_year::TEXT
seq_name(doc_type_code, doc_year) ==
    "document_sequence_" \o doc_type_code \o "_" \o ToString(doc_year)

SequenceNames == {seq_name(c, y) : c \in DocTypeCodes, y \in DocYears}

\* a sequence of the schema: whether it exists, the session whose open
\* transaction created it (0: the creation is committed), its last value
\* (0: nextval was never called; START 1 INCREMENT 1)
SchemaSequence(exists, owner, last_value) ==
    [exists |-> exists, owner |-> owner, last_value |-> last_value]

\* a session: its position in the function body (idle: no call in
\* progress), the name computed, the outcome of the IF NOT EXISTS test,
\* the local next_val (0: not assigned)
SessionState(at, name, absent, next_val) ==
    [at |-> at, name |-> name, absent |-> absent, next_val |-> next_val]

\* the end of a call: the value returned, or the error raised
Outcome30(s, name, value, error) ==
    [session |-> s, name |-> name, value |-> value, error |-> error]

\* the rows of information_schema.sequences a statement of session s sees
\* (READ COMMITTED): the committed sequences and those s created itself
Visible(s, name) ==
    sequences[name].exists /\ sequences[name].owner \in {0, s}

InitSequence ==
    /\ sequences = [n \in SequenceNames |-> SchemaSequence(FALSE, 0, 0)]
    /\ sessions = [s \in Sessions |-> SessionState("idle", None, FALSE, 0)]
    /\ outcomes = <<>>
    /\ creations = [n \in SequenceNames |-> 0]

\* SELECT create_document_sequence_if_not_exists(code, year): seq_name is
\* computed and the IF NOT EXISTS query runs
SequenceCheck(s, doc_type_code, doc_year) ==
    /\ sessions[s].at = "idle"
    /\ Len(outcomes) + Cardinality({x \in Sessions : sessions[x].at # "idle"}) < MaxInvocations
    /\ LET name == seq_name(doc_type_code, doc_year)
       IN  sessions' = [sessions EXCEPT
                          ![s] = SessionState(IF Visible(s, name) THEN "nextval" ELSE "create",
                                              name, ~Visible(s, name), 0)]
    /\ UNCHANGED <<sequences, outcomes, creations, notSequence>>

\* EXECUTE format('CREATE SEQUENCE %I START 1 INCREMENT 1', seq_name): waits
\* while another open transaction has created the name; raises when a
\* sequence of the name exists, which ends the call and its transaction
SequenceCreate(s) ==
    /\ sessions[s].at = "create"
    /\ LET name == sessions[s].name
       IN  /\ ~(sequences[name].exists /\ sequences[name].owner \notin {0, s})
           /\ IF sequences[name].exists
              THEN /\ outcomes' = Append(outcomes, Outcome30(s, name, 0, "DuplicateTable"))
                   /\ sessions' = [sessions EXCEPT ![s] = SessionState("idle", None, FALSE, 0)]
                   /\ UNCHANGED <<sequences, creations>>
              ELSE /\ sequences' = [sequences EXCEPT ![name] = SchemaSequence(TRUE, s, 0)]
                   /\ creations' = [creations EXCEPT ![name] = @ + 1]
                   /\ sessions' = [sessions EXCEPT ![s].at = "nextval"]
                   /\ UNCHANGED outcomes
    /\ UNCHANGED notSequence

\* EXECUTE format('SELECT nextval(%L)', seq_name) INTO next_val
SequenceNextval(s) ==
    /\ sessions[s].at = "nextval"
    /\ sequences' = [sequences EXCEPT ![sessions[s].name].last_value = @ + 1]
    /\ sessions' = [sessions EXCEPT
                       ![s].at = "return",
                       ![s].next_val = sequences[sessions[s].name].last_value + 1]
    /\ UNCHANGED <<outcomes, creations, notSequence>>

\* RETURN next_val, and the transaction of the call commits
SequenceReturn(s) ==
    /\ sessions[s].at = "return"
    /\ outcomes' = Append(outcomes,
                          Outcome30(s, sessions[s].name,
                                    sessions[s].next_val, None))
    /\ sequences' = [n \in SequenceNames |->
                        IF sequences[n].owner = s
                        THEN [sequences[n] EXCEPT !.owner = 0]
                        ELSE sequences[n]]
    /\ sessions' = [sessions EXCEPT ![s] = SessionState("idle", None, FALSE, 0)]
    /\ UNCHANGED <<creations, notSequence>>

\* -------------------------------------------------------------------- Init
\* BaseUnitOfWork.__init__ with or without a session, for a handler map
InitUow(ext, hmap) ==
    /\ pc = "out"
    /\ external = ext
    /\ session = IF external THEN ExternalSession ELSE NoSession
    /\ is_outside_session = external
    /\ open_sessions = IF external THEN {ExternalSession} ELSE {}
    /\ acquired = NoSession
    /\ repositories = None
    /\ handlers_map = hmap
    /\ ctx = 0
    /\ events = <<>>
    /\ nput = 0
    /\ snapshot = <<>>
    /\ ei = 1
    /\ hi = 1
    /\ cur = NoEvent
    /\ queued0 = <<>>
    /\ log = <<>>
    /\ exc = NoExc
    /\ raised = NoExc
    /\ scopes = 0
    /\ commits = 0
    /\ staged = 0
    /\ executed = 0
    /\ call = <<>>

Init ==
    /\ \E ext \in BOOLEAN, hmap \in HandlersMaps : InitUow(ext, hmap)
    /\ InitEntity(FALSE, 0, FALSE, 0, "SN-1")
    /\ InitRepo
    /\ InitCriteria
    /\ InitAudit
    /\ InitApi
    /\ InitPage
    /\ InitVat
    /\ InitFactory
    /\ InitTraversal
    /\ InitCatch
    /\ InitMapper
    /\ InitEvent
    /\ InitSequence

\* ------------------------------------------------------ scope entry / exit
\* BaseUnitOfWork.__aenter__ with _init_repositories and
\* _init_bounded_events_processor (BoundedEventsProcessor.__init__)
UowEnter ==
    /\ pc = "out"
    /\ scopes < MaxScopes
    /\ scopes' = scopes + 1
    /\ IF ~is_outside_session
       THEN /\ session' = scopes + 1
            /\ acquired' = scopes + 1
            /\ open_sessions' = open_sessions \cup {scopes + 1}
       ELSE /\ acquired' = NoSession
            /\ UNCHANGED <<session, open_sessions>>
    /\ repositories' = "set"
    /\ ctx' = scopes + 1
    /\ events' = <<>>
    /\ nput' = 0
    /\ pc' = "body"
    /\ exc' = NoExc
    /\ raised' = NoExc
    /\ commits' = 0
    /\ staged' = 0
    /\ executed' = 0
    /\ log' = <<>>
    /\ queued0' = <<>>
    /\ snapshot' = <<>>
    /\ call' = <<>>
    /\ UNCHANGED <<is_outside_session, external, handlers_map, ei, hi, cur, entVars, restVars>>

\* BaseUnitOfWork.__aexit__ with _exit_repositories
UowExit ==
    /\ pc = "exit"
    /\ session' = SessionAfterExit(is_outside_session, session)
    /\ open_sessions' = OpenAfterExit(is_outside_session, session, open_sessions)
    /\ repositories' = None
    /\ raised' = Leaves(exc)
    /\ pc' = "out"
    /\ call' = <<>>
    /\ UNCHANGED <<is_outside_session, external, acquired, handlers_map, ctx, events,
                   nput, snapshot, ei, hi, cur, queued0, log, exc, scopes, commits,
                   staged, executed, entVars, restVars>>

\* ------------------------------------------------- operations of the body
unchangedByBody == <<entVars, restVars, session, repositories, is_outside_session, external, acquired,
                     open_sessions, handlers_map, ctx, snapshot, ei, hi, cur,
                     queued0, log, raised, scopes, commits>>

\* SaRepository.create
RepoCreate(r) ==
    /\ pc = "body"
    /\ call' = <<"create", r>>
    /\ IF CheckRaises(r)
       THEN /\ Raise(OtherError("NotImplementedError"))
            /\ UNCHANGED <<events, nput, staged, executed>>
       ELSE /\ nput < MaxEvents
            /\ events' = PutEvent(events, "EntityChangedDataEvent", nput + 1)
            /\ nput' = nput + 1
            /\ staged' = staged + 1
            /\ UNCHANGED <<pc, exc, executed>>
    /\ UNCHANGED unchangedByBody

\* SaRepository.upsert; tables = number of tables holding nested entities of
\* the object (one existence query each, _check_entities_exist_in_db)
RepoUpsert(r, tables) ==
    /\ pc = "body"
    /\ call' = <<"upsert", r>>
    /\ IF CheckRaises(r)
       THEN /\ Raise(OtherError("NotImplementedError"))
            /\ UNCHANGED <<events, nput, staged, executed>>
       ELSE /\ nput < MaxEvents
            /\ executed + tables <= MaxStatements
            /\ executed' = executed + tables
            /\ events' = PutEvent(events, "EntityChangedDataEvent", nput + 1)
            /\ nput' = nput + 1
            /\ staged' = staged + 1
            /\ UNCHANGED <<pc, exc>>
    /\ UNCHANGED unchangedByBody

RECURSIVE PutEvents(_, _, _, _)
\* the loop of bulk_create: one event per entity
PutEvents(q, t, n, k) ==
    IF k = 0 THEN q ELSE PutEvents(PutEvent(q, t, n + 1), t, n + 1, k - 1)

\* SaRepository.bulk_create with k entities
RepoBulkCreate(r, k) ==
    /\ pc = "body"
    /\ call' = <<"bulk_create", r>>
    /\ IF CheckRaises(r)
       THEN /\ Raise(OtherError("NotImplementedError"))
            /\ UNCHANGED <<events, nput, staged, executed>>
       ELSE /\ nput + k <= MaxEvents
            /\ events' = PutEvents(events, "EntityChangedDataEvent", nput, k)
            /\ nput' = nput + k
            /\ staged' = staged + k
            /\ UNCHANGED <<pc, exc, executed>>
    /\ UNCHANGED unchangedByBody

\* SaRepository.update; changed = the object has changed values
\* (_get_data_for_update is not empty)
RepoUpdate(r, changed) ==
    /\ pc = "body"
    /\ call' = <<"update", r>>
    /\ IF CheckRaises(r)
       THEN /\ Raise(OtherError("NotImplementedError"))
            /\ UNCHANGED <<events, nput, staged, executed>>
       ELSE /\ nput < MaxEvents
            /\ events' = PutEvent(events, "EntityChangedDataEvent", nput + 1)
            /\ nput' = nput + 1
            /\ IF changed
               THEN /\ executed < MaxStatements
                    /\ executed' = executed + 1
               ELSE executed' = executed
            /\ UNCHANGED <<pc, exc, staged>>
    /\ UNCHANGED unchangedByBody

\* a read operation of SaRepository (get_by_id_or_none, first, filter, count,
\* exists, ...): one select, no read-only check
RepoRead(r) ==
    /\ pc = "body"
    /\ call' = <<"read", r>>
    /\ executed < MaxStatements
    /\ executed' = executed + 1
    /\ UNCHANGED <<pc, exc, events, nput, staged>>
    /\ UNCHANGED unchangedByBody

\* domain code puts an event of its own into the collector
\* (bounded_events_collector_ctx.get().put_event(event))
DomainPutEvent(t) ==
    /\ pc = "body"
    /\ nput < MaxEvents
    /\ events' = PutEvent(events, t, nput + 1)
    /\ nput' = nput + 1
    /\ call' = <<>>
    /\ UNCHANGED <<pc, exc, staged, executed>>
    /\ UNCHANGED unchangedByBody

\* BaseUnitOfWork.rollback
UowRollback ==
    /\ pc = "body"
    /\ staged > 0
    /\ staged' = 0
    /\ call' = <<>>
    /\ UNCHANGED <<pc, exc, events, nput, executed>>
    /\ UNCHANGED unchangedByBody

\* the body raises (a failed query, a domain check, ...)
BodyRaise(e) ==
    /\ pc = "body"
    /\ Raise(e)
    /\ call' = <<>>
    /\ UNCHANGED <<events, nput, staged, executed>>
    /\ UNCHANGED unchangedByBody

\* the body ends normally
BodyReturn ==
    /\ pc = "body"
    /\ pc' = "exit"
    /\ call' = <<>>
    /\ UNCHANGED <<exc, events, nput, staged, executed>>
    /\ UNCHANGED unchangedByBody

\* --------------------------------------------------------------- commit()
unchangedByCommit == <<entVars, restVars, session, repositories, external, acquired, open_sessions,
                       handlers_map, ctx, raised, scopes, executed>>

\* commit() is called and `await self._session.flush()` succeeds
CommitFlush ==
    /\ pc = "body"
    /\ commits < MaxCommits
    /\ commits' = commits + 1
    /\ queued0' = events
    /\ log' = <<LogEntry("flush", NoEvent, None)>>
    /\ EnterStep(CommitNextStep("flush"))
    /\ call' = <<>>
    /\ UNCHANGED <<is_outside_session, events, nput, exc, staged>>
    /\ UNCHANGED unchangedByCommit

\* commit() is called and the flush raises a storage error
CommitFlushRaise(e) ==
    /\ pc = "body"
    /\ commits < MaxCommits
    /\ staged > 0
    /\ commits' = commits + 1
    /\ queued0' = events
    /\ log' = <<LogEntry("flush", NoEvent, None), LogEntry("raise", NoEvent, None)>>
    /\ Raise(e)
    /\ call' = <<>>
    /\ UNCHANGED <<is_outside_session, events, nput, staged, snapshot, ei, hi, cur>>
    /\ UNCHANGED unchangedByCommit

\* what a handler does in handle(event)
HandlerBehaviours == {"ok", "raise", "put"}

\* hl(self._uow).handle(event): BaseHandler.__init__ marks the session as
\* external, then handle() returns, raises or puts a further event
Invoke(step, e, h, beh) ==
    /\ is_outside_session' = TRUE
    /\ CASE beh = "ok" ->
              /\ log' = Append(log, LogEntry(step, e, h))
              /\ hi' = hi + 1
              /\ UNCHANGED <<pc, exc, events, nput>>
         [] beh = "raise" ->
              /\ log' = log \o <<LogEntry(step, e, h), LogEntry("raise", NoEvent, None)>>
              /\ Raise(OtherError("RuntimeError"))
              /\ UNCHANGED <<hi, events, nput>>
         [] beh = "put" ->
              /\ nput < MaxEvents
              /\ log' = Append(log, LogEntry(step, e, h))
              /\ events' = PutEvent(events, "EntityChangedDataEvent", nput + 1)
              /\ nput' = nput + 1
              /\ hi' = hi + 1
              /\ UNCHANGED <<pc, exc>>

\* one iteration of `for hl in handlers` in _dispatch_event(event, after_commit)
DispatchEvent(step, e, after_commit) ==
    LET h == GetHandlers(e)[hi]
    IN  IF FlagMatches(h, after_commit)
        THEN \E beh \in HandlerBehaviours : Invoke(step, e, h, beh)
        ELSE /\ hi' = hi + 1
             /\ UNCHANGED <<pc, exc, events, nput, log, is_outside_session>>

\* mutant: the pre-commit pass consumes the event it has dispatched
BeforeCommitNextEvent_Pop ==
    /\ ei' = ei + 1
    /\ hi' = 1
    /\ events' = Tail(events)
    /\ UNCHANGED <<pc, exc, nput, log, is_outside_session, snapshot, cur>>

\* `for event in events` of dispatch_all_before_commit goes on to the next
\* event of the snapshot; the collector's queue is not touched
BeforeCommitNextEvent ==
    /\ ei' = ei + 1
    /\ hi' = 1
    /\ UNCHANGED <<pc, exc, events, nput, log, is_outside_session, snapshot, cur>>

\* BoundedEventsProcessor.dispatch_all_before_commit
DispatchAllBeforeCommit ==
    /\ pc = "pre"
    /\ call' = <<>>
    /\ IF ei > Len(snapshot)
       THEN /\ EnterStep(CommitNextStep("pre"))
            /\ UNCHANGED <<exc, events, nput, log, is_outside_session>>
       ELSE IF hi > Len(GetHandlers(snapshot[ei]))
            THEN BeforeCommitNextEvent
            ELSE /\ DispatchEvent("pre", snapshot[ei], FALSE)
                 /\ UNCHANGED <<ei, snapshot, cur>>
    /\ UNCHANGED <<queued0, commits, staged>>
    /\ UNCHANGED unchangedByCommit

\* `await self._session.commit()` succeeds
SessionCommit ==
    /\ pc = "txcommit"
    /\ log' = Append(log, LogEntry("txcommit", NoEvent, None))
    /\ staged' = 0
    /\ EnterStep(CommitNextStep("txcommit"))
    /\ call' = <<>>
    /\ UNCHANGED <<is_outside_session, events, nput, exc, queued0, commits>>
    /\ UNCHANGED unchangedByCommit

\* `await self._session.commit()` raises a storage error
SessionCommitRaise(e) ==
    /\ pc = "txcommit"
    /\ staged > 0
    /\ log' = log \o <<LogEntry("txcommit", NoEvent, None), LogEntry("raise", NoEvent, None)>>
    /\ Raise(e)
    /\ call' = <<>>
    /\ UNCHANGED <<is_outside_session, events, nput, staged, queued0, commits,
                   snapshot, ei, hi, cur>>
    /\ UNCHANGED unchangedByCommit

\* BoundedEventsProcessor.dispatch_all_after_commit
DispatchAllAfterCommit ==
    /\ pc = "post"
    /\ call' = <<>>
    /\ IF cur = NoEvent
       THEN IF events = <<>>
            THEN /\ log' = Append(log, LogEntry("return", NoEvent, None))
                 /\ EnterStep(CommitNextStep("post"))
                 /\ UNCHANGED <<exc, events, nput, is_outside_session>>
            ELSE /\ cur' = PopEvent(events).event
                 /\ events' = PopEvent(events).rest
                 /\ hi' = 1
                 /\ log' = Append(log, LogEntry("pop", PopEvent(events).event, None))
                 /\ UNCHANGED <<pc, exc, nput, is_outside_session, snapshot, ei>>
       ELSE IF hi > Len(GetHandlers(cur))
            THEN /\ cur' = NoEvent
                 /\ hi' = 1
                 /\ UNCHANGED <<pc, exc, events, nput, log, is_outside_session,
                                snapshot, ei>>
            ELSE /\ DispatchEvent("post", cur, TRUE)
                 /\ UNCHANGED <<ei, snapshot, cur>>
    /\ UNCHANGED <<queued0, commits, staged>>
    /\ UNCHANGED unchangedByCommit

\* -------------------------------------------------------------------- Next
Next ==
    \/ UowEnter
    \/ UowExit
    \/ \E r \in Repositories : RepoCreate(r)
    \/ \E r \in Repositories, tables \in 0..1 : RepoUpsert(r, tables)
    \/ \E r \in Repositories, k \in 0..MaxBulk : RepoBulkCreate(r, k)
    \/ \E r \in Repositories, changed \in BOOLEAN : RepoUpdate(r, changed)
    \/ \E r \in Repositories : RepoRead(r)
    \/ \E t \in EventTypes : DomainPutEvent(t)
    \/ UowRollback
    \/ \E e \in BodyErrors : BodyRaise(e)
    \/ BodyReturn
    \/ CommitFlush
    \/ \E e \in DBAPIErrors : CommitFlushRaise(e)
    \/ DispatchAllBeforeCommit
    \/ SessionCommit
    \/ \E e \in DBAPIErrors : SessionCommitRaise(e)
    \/ DispatchAllAfterCommit

Spec == Init /\ [][Next]_vars

\* ------------------------------------------- specification of the entity
InitEntitySpec ==
    /\ InitUow(FALSE, EmptyHandlersMap)
    /\ \E is_deleted \in BOOLEAN, deleted_at \in {0, 1},
          is_archived \in BOOLEAN, archived_at \in {0, 1},
          system_number \in SystemNumbers :
            InitEntity(is_deleted, deleted_at, is_archived, archived_at, system_number)
    /\ InitRepo
    /\ InitCriteria
    /\ InitAudit
    /\ InitApi
    /\ InitPage
    /\ InitVat
    /\ InitFactory
    /\ InitTraversal
    /\ InitCatch
    /\ InitMapper
    /\ InitEvent
    /\ InitSequence

NextEntity ==
    \/ \E value \in SystemNumbers : AssignSystemNumber(value)
    \/ \E name \in FlagProperties, value \in BOOLEAN : AssignFlag(name, value)
    \/ \E name \in AtProperties, value \in {0} \cup Datetimes : AssignAt(name, value)
    \/ SetterAssigns
    \/ SetAttrReturns

SpecEntity == InitEntitySpec /\ [][NextEntity]_vars

\* ------------------------------------ specification of the repository reads
InitRepoSpec ==
    /\ InitUow(FALSE, EmptyHandlersMap)
    /\ InitEntity(FALSE, 0, FALSE, 0, "SN-1")
    /\ InitRepo
    /\ InitCriteria
    /\ InitAudit
    /\ InitApi
    /\ InitPage
    /\ InitVat
    /\ InitFactory
    /\ InitTraversal
    /\ InitCatch
    /\ InitMapper
    /\ InitEvent
    /\ InitSequence

NextRepo ==
    \/ \E id \in EntityIds, system_number \in StoredNumbers : StoreRow(id, system_number)
    \/ \E id \in EntityIds : SoftDeleteRow(id)
    \/ \E id \in EntityIds : UndeleteRow(id)
    \/ \E id \in EntityIds, deleted \in DeletedArguments : GetById(id, deleted)
    \/ \E id \in EntityIds, deleted \in DeletedArguments : GetByIdOrNone(id, deleted)
    \/ \E criteria \in GetCriteria, deleted \in DeletedArguments : RepoGet(criteria, deleted)
    \/ \E criteria \in FilterCriteria, deleted \in DeletedArguments :
            RepoFilter(criteria, deleted)

SpecRepo == InitRepoSpec /\ [][NextRepo]_vars

\* ----------------------------------- specification of the criterion objects
NextCriteria ==
    \/ \E f \in DOMAIN CriteriaCollection, value \in StoredNumbers : FactoryCall(f, value)
    \/ \E a \in DOMAIN heap, b \in DOMAIN heap : Combine(a, b)
    \/ \E o \in DOMAIN heap : CriterionNeq(o)
    \/ \E m \in SaModels : NewQuery(m)
    \/ \E o \in DOMAIN heap : CriterionFilter(o)
    \/ \E target \in SaModels, isouter \in BOOLEAN, full \in BOOLEAN :
            IdempotentJoin(target, isouter, full)

SpecCriteria == InitRepoSpec /\ [][NextCriteria]_vars

\* ------------------------------------------ specification of the audit log
NextAudit ==
    \/ \E value \in SystemNumbers : AuditAssign(value)
    \/ \E id \in ItemIds : AppendPaymentItem(id)
    \/ \E id \in ItemIds, t \in 1..2 : TouchPaymentItem(id, t)
    \/ \E id \in ItemIds : ItemStored(id)
    \/ CollectUpdateData
    \/ CollectCreateData
    \/ AuditUpsert

SpecAudit == InitRepoSpec /\ [][NextAudit]_vars

NextApi ==
    \/ \E i \in DOMAIN Registrations : AddExceptionHandler(i)
    \/ \E e \in RaisedErrors : RequestRaises(e)
    \/ \E id \in EntityIds, n \in StoredNumbers : ApiCreate(id, n)
    \/ \E id \in EntityIds : ApiGet(id)
    \/ \E id \in EntityIds, n \in StoredNumbers : ApiUpdate(id, n)

SpecApi == InitRepoSpec /\ [][NextApi]_vars

NextPage == \E count \in Counts, page \in Pages, size \in Sizes : MakePageSizeOut(count, page, size)

SpecPage == InitRepoSpec /\ [][NextPage]_vars

NextVat ==
    \/ \E price \in PriceValues, quantity \in QuantityValues, vat \in PaymentItemVat :
          VatConstruct(price, quantity, vat)
    \/ \E value \in PriceValues : VatSetPrice(value)
    \/ \E value \in QuantityValues : VatSetQuantity(value)

SpecVat == InitRepoSpec /\ [][NextVat]_vars

NextFactory ==
    \E f \in 1..Len(FactoryClasses) :
        \E name \in FactoryMethods(FactoryClasses[f]) :
            \E value \in FactoryArguments(FactoryClasses[f], name) :
                FactoryMethodCall(f, name, value)

SpecFactory == InitRepoSpec /\ [][NextFactory]_vars

NextTraversal ==
    \/ BuildGraph
    \/ \E op \in CollectOperations : CollectData(op)
    \/ CollectSkip
    \/ CollectProcess
    \/ CollectReturn

SpecTraversal == InitRepoSpec /\ [][NextTraversal]_vars

\* the collector runs to completion once called
SpecTraversalFair == SpecTraversal /\ WF_vars(NextTraversal)

\* the Unit of Work with a body that puts events, commits and may catch
\* what commit() raises
NextCatch ==
    \/ UowEnter
    \/ UowExit
    \/ \E r \in Repositories : RepoCreate(r)
    \/ \E t \in EventTypes : DomainPutEvent(t)
    \/ BodyReturn
    \/ CommitFlush
    \/ DispatchAllBeforeCommit
    \/ SessionCommit
    \/ DispatchAllAfterCommit
    \/ BodyCatch

SpecCatch == Init /\ [][NextCatch]_vars

NextMapper == \E obj \in MapClaims, t \in MapDatetimes : MapRoundTrip(obj, t)

SpecMapper == InitRepoSpec /\ [][NextMapper]_vars

NextEvent ==
    \/ \E value \in SystemNumbers : AuditAssign(value)
    \/ \E id \in ItemIds : AppendPaymentItem(id)
    \/ EventCreate
    \/ EventBulkCreate
    \/ EventUpsert
    \/ EventCommit

SpecEvent == InitRepoSpec /\ [][NextEvent]_vars

NextSequence ==
    \/ \E s \in Sessions, c \in DocTypeCodes, y \in DocYears : SequenceCheck(s, c, y)
    \/ \E s \in Sessions : SequenceCreate(s)
    \/ \E s \in Sessions : SequenceNextval(s)
    \/ \E s \in Sessions : SequenceReturn(s)

SpecSequence == InitRepoSpec /\ [][NextSequence]_vars

\* ================================================================ claims
Last(q) == q[Len(q)]

Range(q) == {q[i] : i \in DOMAIN q}

\* the latest commit() call has returned normally
CommitReturned == log # <<>> /\ Last(log).step = "return"

Steps(step) == {i \in DOMAIN log : log[i].step = step}

Rank(step) ==
    CASE step = "flush" -> 0
      [] step = "pre" -> 1
      [] step = "txcommit" -> 2
      [] step \in {"pop", "post"} -> 3
      [] step = "return" -> 4
      [] step = "raise" -> 5

\* C1: the steps of one commit() call happen in the order flush, pre-commit
\* handlers, transaction commit, post-commit handlers; nothing of the call
\* runs after a step that raised, and a post-commit handler runs only after
\* the transaction commit of the same call.
C1_CommitOrder ==
    /\ \A i, j \in DOMAIN log : i < j => Rank(log[i].step) <= Rank(log[j].step)
    /\ log # <<>> => log[1].step = "flush"
    /\ Cardinality(Steps("flush")) <= 1
    /\ Cardinality(Steps("txcommit")) <= 1
    /\ \A j \in Steps("post") \cup Steps("pop") : \E i \in Steps("txcommit") : i < j
    /\ \A i \in Steps("raise") : i = Len(log)
    /\ pc \in {"pre", "txcommit", "post"} => Steps("raise") = {}

C1_Witness ==
    /\ CommitReturned
    /\ Steps("pre") # {}
    /\ Steps("txcommit") # {}
    /\ Steps("post") # {}

\* C2: a Unit of Work that was constructed without a session has, after every
\* scope exit, closed the session it acquired and holds no session.
C2_SessionReleased ==
    (pc = "out" /\ scopes > 0 /\ ~external)
        => (session = NoSession /\ open_sessions = {})

\* C3: a DBAPIError raised inside the scope leaves it as a DomainError,
\* whatever its sqlstate; any other exception (or none) leaves it unchanged.
C3_ErrorTranslation ==
    (pc = "out" /\ scopes > 0)
        => /\ raised.cls # "DBAPIError"
           /\ IF exc.cls = "DBAPIError"
              THEN raised.cls = "DomainError" /\ raised.msg # <<>>
              ELSE raised = exc

C3_Witness ==
    /\ pc = "out"
    /\ exc.cls = "DBAPIError"
    /\ exc.sqlstate = ForeignKeyViolation
    /\ raised = DomainError(<<"D">>)

\* the events popped by the post-commit pass, in the order of the pops
Popped ==
    LET IsPop(entry) == entry.step = "pop"
        pops == SelectSeq(log, IsPop)
    IN  [i \in DOMAIN pops |-> pops[i].ev]

IsPrefix(p, q) == Len(p) <= Len(q) /\ SubSeq(q, 1, Len(p)) = p

\* C4: when commit() returns normally the queue of the collector is empty,
\* and the post-commit pass has taken the events in the order they were put:
\* first those queued when commit() was called, in queue order, then the
\* later ones, by increasing put number.
C4_DrainedFifo ==
    [][(log' # log /\ log' # <<>> /\ Last(log').step = "return")
        => /\ events' = <<>>
           /\ IsPrefix(queued0, Popped')
           /\ \A i, j \in DOMAIN Popped' : i < j => Popped'[i].n < Popped'[j].n]_vars

C4_Witness ==
    /\ CommitReturned
    /\ pc = "body"
    /\ events = <<>>
    /\ Len(Popped) >= 2

\* C5: the pre-commit pass removes no event: the events of its snapshot stay
\* queued in the same relative order until the pass is over, and a commit()
\* that returns has handed each of them to the post-commit pass.
C5_BeforeCommitKeepsEvents ==
    LET InSnapshot(e) == e \in Range(snapshot)
    IN  /\ pc \in {"pre", "txcommit"} => SelectSeq(events, InSnapshot) = snapshot
        /\ pc = "pre" => IsPrefix(queued0, snapshot)
        /\ CommitReturned => Range(snapshot) \subseteq Range(Popped)

C5_Witness ==
    /\ pc = "txcommit"
    /\ Len(snapshot) >= 2
    /\ Steps("pre") # {}
    /\ Len(events) > Len(snapshot)

\* log positions at which handler h was invoked with event e
Invocations(e, h) ==
    {i \in DOMAIN log : log[i].step \in {"pre", "post"} /\ log[i].ev = e /\ log[i].h = h}

\* C6: in a commit() that returns, every handler registered for the type of an
\* event that was queued at the call is invoked exactly once with it, in the
\* pre-commit pass if its flag is false and in the post-commit pass if it is
\* true, in map order within a pass; no other handler is invoked with it.
C6_HandlersOncePerEvent ==
    CommitReturned =>
        /\ \A e \in Range(queued0) :
             LET hs == GetHandlers(e)
             IN  /\ \A k \in DOMAIN hs :
                       /\ Cardinality(Invocations(e, hs[k])) = 1
                       /\ \A i \in Invocations(e, hs[k]) :
                            log[i].step = IF ON_TRANSACTION_COMMIT[hs[k]] THEN "post" ELSE "pre"
                 /\ \A k1, k2 \in DOMAIN hs :
                       (k1 < k2 /\ ON_TRANSACTION_COMMIT[hs[k1]] = ON_TRANSACTION_COMMIT[hs[k2]])
                          => \A i \in Invocations(e, hs[k1]), j \in Invocations(e, hs[k2]) : i < j
        /\ \A i \in Steps("pre") \cup Steps("post") : log[i].h \in Range(GetHandlers(log[i].ev))

C6_Witness ==
    /\ CommitReturned
    /\ \E e \in Range(queued0) :
          /\ Len(GetHandlers(e)) = 3
          /\ \A k \in 1..3 : Invocations(e, GetHandlers(e)[k]) # {}
    /\ Len(queued0) >= 2

\* C7: bounded_events_collector_ctx is None whenever no scope is active.
C7_CtxNoneOutsideScope == pc = "out" => ctx = 0

\* C10: create, upsert, bulk_create and update of a read-only repository
\* raise NotImplementedError and change nothing: no event put, nothing staged
\* in the session, no statement executed; a read of it does not raise.
C10_ReadOnlyRepository ==
    [][(pc = "body" /\ call' # <<>> /\ is_read_only_repository[call'[2]])
        => IF call'[1] \in MutatingOps
           THEN /\ pc' = "exit"
                /\ exc' = OtherError("NotImplementedError")
                /\ events' = events
                /\ staged' = staged
                /\ executed' = executed
           ELSE /\ pc' = "body"
                /\ exc' = NoExc]_vars

C10_Witness ==
    /\ pc = "exit"
    /\ call # <<>>
    /\ call[1] = "bulk_create"
    /\ is_read_only_repository[call[2]]
    /\ exc = OtherError("NotImplementedError")
    /\ events # <<>>

\* no attribute assignment is in progress
Idle == stack = <<>> /\ pend.name = None

\* C8: the change log holds, per attribute, at most one entry; its old_value
\* is the value the attribute had at the end of construction and, once the
\* assignment is over, its new_value is the current value; there is no entry
\* for an attribute that was only ever assigned its constructed value; and an
\* entry is never removed.
C8_ChangeLog ==
    /\ [](/\ \A f \in DOMAIN logs : logs[f].old = init0[f]
          /\ Idle => \A f \in DOMAIN logs : logs[f].new = Get(attrs, f)
          /\ DOMAIN logs \subseteq assignedDiff)
    /\ [][DOMAIN logs \subseteq DOMAIN logs']_vars

C8_Witness ==
    /\ Idle
    /\ "system_number" \in DOMAIN logs
    /\ logs["system_number"].new = logs["system_number"].old
    /\ "deleted_at" \in DOMAIN logs
    /\ logs["deleted_at"].new # logs["deleted_at"].old

\* C9: after construction and after every completed assignment to
\* is_deleted / deleted_at (is_archived / archived_at) the flag is true
\* exactly when the timestamp is not None, and an assignment never nests more
\* than two setters (flag -> timestamp or timestamp -> flag), so it ends.
C9_SoftDeleteConsistent ==
    /\ Idle => /\ attrs["_is_deleted"] = (attrs["_deleted_at"] # 0)
               /\ attrs["_is_archived"] = (attrs["_archived_at"] # 0)
    /\ Len(stack) <= 2
    /\ Len(stack) = 2 => pend.name = None

C9_Witness ==
    /\ Idle
    /\ {"is_deleted", "deleted_at", "is_archived", "archived_at"} \subseteq DOMAIN logs
    /\ attrs["_is_deleted"]
    /\ ~attrs["_is_archived"]
    /\ init0["is_deleted"] = FALSE
    /\ init0["is_archived"] = TRUE

\* ------------------------------------------------- claims on the reads
\* the storage model has the soft-delete columns
SupportsSoftDelete == "SaSoftDeleteMixin" \in Bases[model]

\* a row passes the deleted filter of the claim
PassesDeleted(r, deleted) ==
    \/ ~SupportsSoftDelete
    \/ deleted = None
    \/ deleted = "False" /\ ~r.is_deleted
    \/ deleted = "True" /\ r.is_deleted

\* C11: get_by_id(id, deleted) returns the entity of the stored row that has
\* this id and passes the deleted filter (False: live rows, True: soft-deleted
\* rows, None: either) and raises the not-found error carrying the id when
\* there is no such row; get_by_id_or_none returns the same entity, or
\* nothing without raising.
C11_GetById ==
    read.op \in {"get_by_id", "get_by_id_or_none"} =>
        LET want == {r \in table : r.id = read.id /\ PassesDeleted(r, read.deleted)}
        IN  IF want # {}
            THEN read.outcome = "return" /\ read.entities = {orm_to_entity(r) : r \in want}
            ELSE IF read.op = "get_by_id"
                 THEN read.outcome = not_found_exception /\ read.exc_id = read.id
                 ELSE read.outcome = "return" /\ read.entities = {}

\* C12: get(criteria) returns the entity when exactly one stored row matches,
\* raises the not-found error when none matches and raises
\* MultipleObjectsReturnedError when several match; it never returns one of
\* several matches.
C12_GetExactlyOne ==
    read.op = "get" =>
        LET matches == base_query(table, read.criteria, read.deleted)
        IN  /\ matches = {} => read.outcome = not_found_exception /\ read.entities = {}
            /\ Cardinality(matches) = 1 =>
                    /\ read.outcome = "return"
                    /\ read.entities = {orm_to_entity(r) : r \in matches}
            /\ Cardinality(matches) > 1 =>
                    read.outcome = MultipleObjectsReturnedError /\ read.entities = {}

C12_Witness ==
    /\ read.op = "get"
    /\ read.criteria.cls = "OrCombinedCriteria"
    /\ Cardinality(base_query(table, read.criteria, read.deleted)) > 1
    /\ read.outcome = MultipleObjectsReturnedError

\* the criterion neq() was called on
Unnegated(c) == [c EXCEPT !.is_negate = FALSE]

\* the entities the query filtered with c does not select
Complement(c, deleted) ==
    filter(table, NoCriteria, deleted) \ filter(table, Unnegated(c), deleted)

\* C15: the query filtered with c.neq() selects exactly the rows the query
\* filtered with c does not select, both when c.neq() is given to filter on
\* its own and when it is a part of a combined criterion.
C15_NeqIsComplement ==
    read.op = "filter" =>
        LET q == read.criteria
            part(i) == IF q.criteria[i].is_negate
                       THEN Complement(q.criteria[i], read.deleted)
                       ELSE filter(table, q.criteria[i], read.deleted)
        IN  IF q.is_negate
            THEN read.entities = Complement(q, read.deleted)
            ELSE IF q.cls = "AndCombinedCriteria"
                 THEN read.entities = part(1) \cap part(2)
                 ELSE read.entities = part(1) \cup part(2)

\* --------------------------------------- claims on the criterion objects
\* C16: neq() on any criterion, RelationCriteria included, returns a new
\* object and leaves every attribute of the original (and of every other
\* existing object) unchanged.
C16_NeqLeavesOriginal ==
    [][(ccall'.op = "neq" /\ heap' # heap) =>
            /\ ccall'.result \notin DOMAIN heap
            /\ \A o \in DOMAIN heap : heap'[o] = heap[o]]_vars

\* C17: after any sequence of idempotent_join calls on one query each join
\* target is present at most once in the join plan, whatever the flags.
C17_JoinedOnce ==
    \A i \in DOMAIN setup_joins, j \in DOMAIN setup_joins :
        setup_joins[i].target = setup_joins[j].target => i = j

\* ---------------------------------------------- claims on the audit log
\* the keys of the entity records of audit log data
Records(data) == DOMAIN data \ {"root_entity", "created_at"}

\* C13: upsert(obj) puts exactly one event whose changes hold the create
\* snapshot of every collection-held nested entity that has no row yet, one
\* record per such entity also when several have the same type, and no
\* create snapshot of a nested entity that is stored already.
C13_UpsertNestedCreates ==
    audit.op = "upsert" =>
        LET creates == {k \in Records(audit.data) : audit.data[k].type = "create"}
            items == Range(objs[ClaimId].vars.payment_items)
        IN  /\ audit.events = 1
            /\ \A i \in items \ stored_items :
                    Cardinality({k \in creates : audit.data[k].id = ToString(i)}) = 1
            /\ \A i \in items \cap stored_items :
                    \A k \in creates : audit.data[k].id # ToString(i)

\* the entities with a recorded field change
Changed == {r \in DOMAIN objs : DOMAIN objs[r].logs # {}}

\* C18: collect_update_data returns a record, of type "update", exactly for
\* the entities with a recorded field change; when only system_number of the
\* root has one, the data hold besides root_entity and created_at the root's
\* record alone, with the single pair {old, new} of that field.
C18_UpdateOnlyChanged ==
    audit.op = "collect_update_data" =>
        LET recs == Records(audit.data)
        IN  /\ {"root_entity", "created_at"} \subseteq DOMAIN audit.data
            /\ {audit.data[k].id : k \in recs} = {ToString(r) : r \in Changed}
            /\ Cardinality(recs) = Cardinality(Changed)
            /\ \A k \in recs : audit.data[k].type = "update"
            /\ (Changed = {ClaimId} /\ DOMAIN objs[ClaimId].logs = {"system_number"}) =>
                    /\ recs = {"claim_entity"}
                    /\ audit.data["claim_entity"].changes =
                          ("system_number" :>
                              [old |-> objs[ClaimId].logs["system_number"].old,
                               new |-> objs[ClaimId].vars.system_number])

C18_Witness ==
    /\ audit.op = "collect_update_data"
    /\ Changed = {ClaimId}
    /\ Len(objs[ClaimId].vars.payment_items) = MaxItems
    /\ Records(audit.data) = {"claim_entity"}

C14_ClaimScenario ==
    LET created == \E r \in table : r.id = response.claim_id
    IN  /\ response.method = "POST" =>
              /\ response.status = 200
              /\ response.detail.systemNumber = response.system_number
              /\ response.detail.paymentItems = <<>>
              /\ response.detail.isDeleted = FALSE
        /\ (response.method = "GET" /\ created) =>
              /\ response.status = 200
              /\ \E r \in table :
                    /\ r.id = response.detail.id
                    /\ r.system_number = response.detail.systemNumber
        /\ (response.method = "PATCH" /\ created) =>
              /\ response.status = 200
              /\ \A r \in table :
                    r.id = response.claim_id => r.system_number = response.system_number
        /\ (response.method \in {"GET", "PATCH"} /\ ~created) =>
              response.exc.cls = "ClaimNotFoundError"

\* cls is base or a subclass of it
IsSubclass(cls, base) == \E j \in DOMAIN Mro[cls] : Mro[cls][j] = base

\* C20: the status of an error response is 404 for a not-found error, 400 for
\* an entity-field error and a generic domain error, 403 for a permission
\* error, for an external-service error the external code when it is an
\* integer of 400..499, 502 when it is an integer of 500 or more and 400
\* otherwise, and 500 for what is neither a domain nor a validation error,
\* whatever the order the handlers were registered in.
C20_StatusOfError ==
    response.exc.cls # None =>
        LET cls == response.exc.cls
            code == response.exc.external_code
        IN  IF IsSubclass(cls, "NotFoundError") THEN response.status = 404
            ELSE IF IsSubclass(cls, "EntityFieldError") THEN response.status = 400
            ELSE IF IsSubclass(cls, "PermissionAccessError") THEN response.status = 403
            ELSE IF IsSubclass(cls, "ExternalServiceError")
                 THEN response.status =
                        IF code.kind = "int" /\ code.int >= 400 /\ code.int <= 499
                        THEN code.int
                        ELSE IF code.kind = "int" /\ code.int >= 500 THEN 502 ELSE 400
            ELSE IF IsSubclass(cls, "DomainError") THEN response.status = 400
            ELSE IF cls \in {"RequestValidationError", "ValidationError"} THEN TRUE
            ELSE response.status = 500

C20_Witness ==
    /\ response.exc.cls = "PermissionAccessError"
    /\ response.status = 403
    /\ \E i, j \in DOMAIN exception_handlers :
          /\ i < j
          /\ exception_handlers[i][1] = "DomainError"
          /\ exception_handlers[j][1] = "PermissionAccessError"

\* ------------------------------------------------- claims on pagination
\* C21: make_page_size_out returns a result for every count >= 0 and every
\* page and size PageSizeIn accepts, with pages = ceil(count / size),
\* previous_page = page - 1 when page > 1 and absent otherwise, next_page =
\* page + 1 when page < pages and absent otherwise; count 45, size 20, page 2
\* gives pages 3, next_page 3 and previous_page 1.
C21_PageSizeOut ==
    paged # NoPage =>
        /\ paged.raised = None
        /\ paged.size > 0 =>
              /\ paged.pages * paged.size >= paged.count
              /\ (paged.pages - 1) * paged.size < paged.count
        /\ paged.size < 0 =>
              /\ paged.pages * paged.size <= paged.count
              /\ (paged.pages - 1) * paged.size > paged.count
        /\ paged.previous_page = IF paged.page > 1 THEN paged.page - 1 ELSE 0
        /\ paged.next_page = IF paged.page < paged.pages THEN paged.page + 1 ELSE 0
        /\ (paged.count = 45 /\ paged.size = 20 /\ paged.page = 2) =>
              (paged.pages = 3 /\ paged.next_page = 3 /\ paged.previous_page = 1)

\* ---------------------------------- claims on the VAT-bearing PaymentItem
\* C22: for every price >= 0, quantity >= 0 and rate of 5, 10 or 20:
\* total_sum = price * quantity, sum_vat = total_sum * rate / (100 + rate)
\* (checked where the quotient is exact), and sum_vat + sum_without_vat ==
\* total_sum; price 0 and quantity 0 give 0, 0 and 0; price 1, quantity 88 and
\* rate 10 give 88, 8 and 80.
C22_VatSums ==
    item.constructed =>
        LET total == total_sum(item)
            dividend == Scaled(Mul(total, item.vat))
        IN  /\ (item._price <= MaxPrice /\ item._quantity <= ExampleQuantity) =>
                  ExactEq(total, Limbs(item._price * item._quantity))
            /\ ~DivSmall(dividend, 100 + item.vat).inexact =>
                  ExactEq(Mul(sum_vat(item), 100 + item.vat), dividend)
            /\ ExactEq(float_add(sum_vat(item), sum_without_vat(item)), Scaled(total))
            /\ (item._price = 0 /\ item._quantity = 0) =>
                  /\ BitLength(total) = 0
                  /\ BitLength(sum_vat(item)) = 0
                  /\ BitLength(sum_without_vat(item)) = 0
            /\ (item._price = 1 /\ item._quantity = ExampleQuantity /\ item.vat = 10) =>
                  /\ ExactEq(total, Limbs(88))
                  /\ ExactEq(sum_vat(item), Scaled(Limbs(8)))
                  /\ ExactEq(sum_without_vat(item), Scaled(Limbs(80)))

\* C23: a negative value given to price or to quantity, through the
\* attribute or through the constructor, fails with ValueError and leaves the
\* item as it was, so price >= 0 and quantity >= 0 hold for every constructed
\* item.
C23_NonNegative ==
    /\ [](item.constructed => (item._price >= 0 /\ item._quantity >= 0))
    /\ []((vcall.op # None /\ vcall.value < 0) => vcall.raised = "ValueError")
    /\ [][(vcall'.op # None /\ vcall'.value < 0) => item' = item]_vars

C23_Witness ==
    /\ item.constructed
    /\ item._price = 1
    /\ vcall = VatCall("price", 0 - 1, "ValueError")

\* C24: a criterion returned by the exact-match call factory(v) compares
\* the column for equality with v, whatever methods were called on the
\* factory before, and stays so whatever is called on the factory later
C24_ExactMatch ==
    \A i \in 1..Len(returned) :
        returned[i].called = "__call__" =>
            factory_conditions(fheap[returned[i].ref]) =
                Condition("==", returned[i].arg, FALSE)

\* no entity, identified by type name and id, is processed twice
AtMostOnce ==
    \A i, j \in 1..Len(visits) :
        entity_key(graph[visits[i]]) = entity_key(graph[visits[j]]) => i = j

\* C25: a collector call on any entity graph, cyclic ones included, comes
\* to an end, and it processes each entity, identified by type name and
\* id, at most once
C25_CollectTerminates ==
    /\ []AtMostOnce
    /\ (cop # None) ~> (cop # None /\ frames = <<>>)

\* a finished call on a graph where the root refers to an entity whose
\* collection holds the root: both were processed
C25_Witness ==
    /\ cop # None
    /\ frames = <<>>
    /\ graph[1].vars.ref = 2
    /\ graph[2].vars.items = <<1>>
    /\ Len(visits) >= 2

\* C26: the post-commit pass takes an event off the queue before it runs
\* the first handler: when a post-commit handler raises, the event it was
\* handling is not queued and the queue holds exactly the events put after
\* it, in the order they were put; a later commit() of the scope dispatches
\* that event to no handler
C26_PoppedBeforeHandled ==
    /\ PostRaised =>
          /\ cur = log[Len(log) - 1].ev
          /\ cur \notin Range(events)
          /\ Len(events) = nput - cur.n
          /\ \A i \in DOMAIN events : events[i].n = cur.n + i
    /\ \A d \in dropped :
          d.scope = scopes =>
              /\ d.ev \notin Range(events)
              /\ commits > d.commit => \A i \in DOMAIN log : log[i].ev # d.ev

\* a commit() that came after the failed one has dispatched an event that
\* was queued behind the dropped one, and has returned
C26_Witness ==
    /\ CommitReturned
    /\ \E d \in dropped :
          /\ d.scope = scopes
          /\ commits > d.commit
          /\ \E i \in Steps("post") : log[i].ev.n > d.ev.n

\* the event was put while the latest commit() call was running: commit()
\* dispatches only when its queue is not empty, and the last event of that
\* queue is the last one put before the call
PutDuringCommit(e) == queued0 # <<>> /\ e.n > Last(queued0).n

\* no pre-commit dispatch of an event put during the latest commit() call
NoPreDispatch ==
    /\ pc = "pre" => snapshot = queued0
    /\ \A i \in DOMAIN log :
          (log[i].step \in {"pre", "post"} /\ PutDuringCommit(log[i].ev))
              => (log[i].step = "post" /\ ON_TRANSACTION_COMMIT[log[i].h])

\* every event put during the latest commit() call was taken by the
\* post-commit loop and given once to each post-commit handler of its type
AllPostDispatched ==
    queued0 # <<>> =>
        \A n \in (Last(queued0).n + 1)..nput :
            \E e \in Range(Popped) :
                /\ e.n = n
                /\ \A k \in DOMAIN GetHandlers(e) :
                      ON_TRANSACTION_COMMIT[GetHandlers(e)[k]]
                         => \E i \in Steps("post") : Invocations(e, GetHandlers(e)[k]) = {i}

\* C27: an event a handler puts while commit() is running is not in the
\* snapshot of the pre-commit pass and is dispatched by that commit() to
\* no pre-commit handler; when the commit() returns, every such event has
\* been taken by the post-commit loop and given once to each post-commit
\* handler of its type
C27_PutDuringCommit ==
    [][/\ NoPreDispatch'
       /\ (log' # log /\ log' # <<>> /\ Last(log').step = "return") => AllPostDispatched']_vars

\* a commit() has returned in which a pre-commit handler and a post-commit
\* handler each put an event, and both events went to the post-commit
\* handler of their type
C27_Witness ==
    /\ CommitReturned
    /\ pc = "body"
    /\ Len(queued0) = 1
    /\ nput = Last(queued0).n + 2
    /\ \A n \in (Last(queued0).n + 1)..nput :
          \E i \in Steps("post") : log[i].ev.n = n /\ log[i].h = "NotifyResponsible"

\* C28: the claim read back from its row has the id, system number,
\* timestamps and soft-delete state of the claim and the ids of its payment
\* items in their order; each payment item row carries the id of its own
\* payment item, so the rows of one claim have different ids
C28_MapperRoundTrip ==
    \A k \in DOMAIN mapped :
        LET obj == mapped[k].obj
            orm == mapped[k].orm
            back == mapped[k].back
        IN  /\ back.id = obj.id
            /\ back.system_number = obj.system_number
            /\ back.created_at = obj.created_at
            /\ back.updated_at = obj.updated_at
            /\ back.is_deleted = obj.is_deleted
            /\ back.deleted_at = obj.deleted_at
            /\ [i \in DOMAIN back.payment_items |-> back.payment_items[i].id]
                  = [i \in DOMAIN obj.payment_items |-> obj.payment_items[i].id]
            /\ \A i \in DOMAIN orm.payment_items :
                  orm.payment_items[i].id = obj.payment_items[i].id
            /\ \A i, j \in DOMAIN orm.payment_items :
                  orm.payment_items[i].id = orm.payment_items[j].id => i = j

\* the records of the changes of an event, without the header
EventRecords(changes) == DOMAIN changes \ {"root_entity", "created_at"}

\* C29: the event create, bulk_create or upsert puts for a claim that has
\* no row yet has the id of the claim as entity_id, and its changes hold,
\* besides root_entity and created_at, a record of the claim
C29_NewEntityRecorded ==
    (changed_event.op # None /\ changed_event.fresh) =>
        /\ changed_event.entity_id = objs[ClaimId].vars._id
        /\ {"root_entity", "created_at"} \subseteq DOMAIN changed_event.changes
        /\ \E key \in EventRecords(changed_event.changes) :
              /\ key = get_entity_name(objs[ClaimId])
              /\ changed_event.changes[key].id = get_entity_id(objs[ClaimId])

\* the values returned for a sequence name, in the order of the returns
ReturnedFor(name) ==
    LET IsValue(o) == o.name = name /\ o.error = None
        values == SelectSeq(outcomes, IsValue)
    IN  [i \in DOMAIN values |-> values[i].value]

\* no call for the name is in progress
Quiet(name) == \A s \in Sessions : sessions[s].name # name

\* the values returned for the name differ from each other, and once no
\* call for it is in progress they are 1, 2, 3, ... without a gap
CountsFromOne(name) ==
    LET values == ReturnedFor(name)
    IN  /\ \A i, j \in DOMAIN values : values[i] = values[j] => i = j
        /\ \A i \in DOMAIN values : values[i] \in 1..sequences[name].last_value
        /\ Quiet(name) => {values[i] : i \in DOMAIN values} = 1..Len(values)

\* C30: whatever the interleaving of the sessions, every call returns a
\* value, each sequence is created once, and the calls for one (code, year)
\* return 1, 2, 3, ... whatever is called for the other names
C30_SequencePerCodeAndYear ==
    /\ \A i \in DOMAIN outcomes : outcomes[i].error = None
    /\ \A n \in SequenceNames : creations[n] <= 1 /\ CountsFromOne(n)

====
